---- MODULE Spec2Model ----
(***************************************************************************)
(* CodexUP: the parallel run orchestrator of src/src/codexup.py.           *)
(*                                                                         *)
(* main() submits one _run_target task per selected target to a thread     *)
(* pool; each task checks the target file, runs the agent through          *)
(* run_codex (which retries after a usage-limit signal), builds the        *)
(* target's metrics record and appends it to the shared metrics file under *)
(* _metrics_lock; main() collects the futures, counts failures and exits.  *)
(***************************************************************************)
EXTENDS Integers, Sequences, FiniteSets, TLC

(* ------------------------------ bounds --------------------------------- *)

\* Number of targets in the proof config.
NumTargets == 2

\* Largest value of --jobs explored.
MaxJobs == 2

\* The usage limit, which all agents of a run share, is met by boundedly many
\* attempts of the run and then stays clear: by at most MaxLimited attempts
\* when a single target is selected, by at most MaxLimitedShared attempts
\* when two are, and by one fewer when more are.
MaxLimited == 2
MaxLimitedShared == 1

\* The most rollout files under the sessions root before the run.
MaxRollouts == 2

\* The resets_in_seconds values the agent's usage-limit payload may carry.
Resets == {0, 10}

\* Largest token count a session log reports, largest per-million rate of a
\* pricing table and the most lines a session log holds.
MaxCount == 2
MaxRate == 1
MaxLogLines == 2

\* The most line entries of a coverage report and the most findings of a
\* verification report.
MaxLines == 2
MaxFindings == 1

\* The most pieces of a prompt template.
MaxTemplateLen == 4
MaxOldLines == 1
MaxFixCalls == 2

(* ------------------------------ values --------------------------------- *)

\* The sum of f over the set S.
RECURSIVE SumOver(_, _)
SumOver(f, S) ==
    IF S = {} THEN 0
    ELSE LET x == CHOOSE y \in S : TRUE IN f[x] + SumOver(f, S \ {x})

\* Python's None and a present value.
None == <<>>
Some(x) == <<x>>

Targets == 1..NumTargets

\* One line of the agent's combined stdout/stderr, by what run_codex looks at:
\* whether it contains "usage_limit_reached" or "Too Many Requests", and what
\* follows its first "{":  no brace at all, text json.loads rejects, JSON
\* without an integer error.resets_in_seconds, or JSON carrying the integer.
Payloads ==
    {[kind |-> k, value |-> 0] : k \in {"nobrace", "malformed", "noreset"}}
        \cup {[kind |-> "int", value |-> r] : r \in Resets}

OutputLines == [signal : BOOLEAN, payload : Payloads]

\* A value of a JSON number field as the code sees it: the key is missing
\* (None) or it holds an integer.
Counts == {None} \cup {Some(n) : n \in 0..MaxCount}

\* The total_token_usage object of a token-count record of the agent.  The
\* agent's own total is any number, whatever its components add up to.
UpstreamTotals == {None, Some(0), Some(4 * MaxCount + 1)}

TotalTokenUsages ==
    [input_tokens : Counts, cached_input_tokens : Counts,
     output_tokens : Counts, reasoning_output_tokens : Counts,
     total_tokens : UpstreamTotals]

\* Two records of one session, the later one cumulative over the earlier.
UsageEarly ==
    [input_tokens |-> Some(1), cached_input_tokens |-> Some(0),
     output_tokens |-> Some(0), reasoning_output_tokens |-> Some(0),
     total_tokens |-> Some(0)]

UsageLate ==
    [input_tokens |-> Some(MaxCount), cached_input_tokens |-> Some(1),
     output_tokens |-> Some(1), reasoning_output_tokens |-> Some(0),
     total_tokens |-> Some(0)]

\* One line of a session log, by what parse_token_usage_from_session makes of
\* it: an event_msg/token_count record whose info.total_token_usage is an
\* object ("usage"), such a record without that object ("nototal"), another
\* JSON object ("other"), an object whose payload or info is a string, a
\* number or a list ("badfield"), a JSON value that is not an object
\* ("nonobject"), or text that json.loads rejects ("nonjson").
OtherLineKinds == {"nototal", "other", "badfield", "nonobject", "nonjson"}

NoUsage ==
    [input_tokens |-> None, cached_input_tokens |-> None,
     output_tokens |-> None, reasoning_output_tokens |-> None,
     total_tokens |-> None]

UsageLine(u) == [kind |-> "usage", usage |-> u]

SessionLines(usages) ==
    {UsageLine(u) : u \in usages}
        \cup {[kind |-> k, usage |-> NoUsage] : k \in OtherLineKinds}

\* What the agent left in its session store for a target's run marker:
\* no file that holds the marker (None), or the lines of the file that does.
RECURSIVE SeqsUpTo(_, _)
SeqsUpTo(S, n) ==
    IF n = 0 THEN {<<>>}
    ELSE LET shorter == SeqsUpTo(S, n - 1)
         IN shorter \cup {Append(q, x) : q \in shorter, x \in S}

\* viewer-coverage.json of a proof directory when it is read: not there
\* ("missing"), not JSON or not readable ("invalid"), JSON that is not an
\* object ("nonobject"), an object without the viewer-coverage key
\* ("noviewer"), an object whose viewer-coverage or overall_coverage is not
\* an object ("badviewer"), or a report: the overall_coverage summary as it
\* stands and the line entries of the coverage map, each in a harness file
\* or not and with its status, a string of characters.
NoOverall == [hit |-> None, total |-> None, percentage |-> None]

Overalls ==
    {NoOverall}
        \cup {[hit |-> Some(h), total |-> Some(n), percentage |-> Some(<<h, n>>)] :
                 h \in 0..MaxLines, n \in 0..MaxLines}

Hit == <<"h", "i", "t">>
Missed == <<"m", "i", "s", "s", "e", "d">>

\* str(status) of the statuses a report may give: the words in several
\* spellings, the number 1, the JSON value true (str(True) is "True").
PlainStatuses == {Hit, Missed}

Statuses ==
    PlainStatuses
        \cup {<<"H", "I", "T">>, <<"C", "o", "v", "e", "r", "e", "d">>, <<"1">>,
              <<"T", "r", "u", "e">>}

LineEntries == [harness : BOOLEAN, status : PlainStatuses]

StatusLineEntries == [harness : BOOLEAN, status : Statuses]

CoverageFile(kind, overall, lines) ==
    [kind |-> kind, overall |-> overall, lines |-> lines]

BrokenCoverageKinds ==
    {"missing", "invalid", "nonobject", "noviewer", "badviewer"}

CoverageReports ==
    {CoverageFile("report", o, l) :
        o \in Overalls, l \in SeqsUpTo(LineEntries, MaxLines)}

\* Reports without a summary, their line entries with any of the statuses.
StatusReports ==
    {CoverageFile("report", NoOverall, l) :
        l \in SeqsUpTo(StatusLineEntries, MaxLines)}

\* viewer-result.json when it is read: "missing", "invalid", "nonobject", an
\* object without the viewer-result key ("noresult"), an object whose
\* viewer-result or results is not an object ("badresults"), or a report
\* with a list of findings under false.
ResultFile(kind, findings) == [kind |-> kind, findings |-> findings]

BrokenResultKinds ==
    {"missing", "invalid", "nonobject", "noresult", "badresults"}

ResultReports == {ResultFile("report", n) : n \in 0..MaxFindings}

\* Reports whose results object has no list under false: no false key at
\* all ("nofalse"), a value that is not a list and not empty, such as a text
\* or a number ("falsenotlist"), or an empty value that is not a list, such
\* as null, "" or {} ("falseempty").
OddFalseKinds == {"nofalse", "falsenotlist", "falseempty"}

\* A prompt template is a sequence of pieces: a run of text without line
\* break, bracket or brace, a line break, the text [Examples], another
\* bracketed text, a placeholder whose key is in ctx, and a placeholder
\* whose key is not.
Brackets == {"[Examples]", "[Section]"}

Pieces ==
    {"text", "\n", "{FUNCTION_NAME}", "{UNKNOWN}"} \cup Brackets

Templates == SeqsUpTo(Pieces, MaxTemplateLen)

\* A task section with a placeholder, then the examples, then the rules.
SampleTemplate ==
    <<"[Section]", "{FUNCTION_NAME}", "\n", "[Examples]", "text", "\n",
      "[Section]", "text">>

\* The pricing table of the config: None when the config has none, else the
\* four per-million rates, each missing (None) or a number.
Rates == {None} \cup {Some(r) : r \in 0..MaxRate}

PricingTables ==
    [input_per_1m : Rates, output_per_1m : Rates,
     cached_per_1m : Rates, reasoning_per_1m : Rates]

VARIABLES
    dry_run,            \* args.dry_run
    jobs,               \* args.jobs
    limit,              \* args.limit
    target_exists,      \* os.path.exists(target_file), per target
    pricing,            \* codex_config.get("pricing")
    session_log,        \* what the target's agent writes to its session file,
                        \* after the prompt (None: it writes no session file)
    newest_first,       \* glob yields the rollout files newest first, or oldest first
    function,           \* target.get("function"), per target
    write_fault,        \* what goes wrong when the target's record is written
    old_files,          \* codex_metrics.jsonl and its .old as they were before the run
    fix_argv,           \* the invocations of fix_codex_metrics.py after the run
    fix_calls,          \* what each invocation made so far has reported
    metrics_dir,        \* the files fix_codex_metrics.py works on (None before it ran)
    session_store,      \* the rollout files under the sessions root, as glob yields them
    coverage_report,    \* viewer-coverage.json of the target's proof directory
    result_report,      \* viewer-result.json of the target's proof directory
    template,           \* the text of the file given by --prompt
    use_examples,       \* args.use_examples
    prompt,             \* the prompt handed to run_codex (None before)
    pc,                 \* where each target's task is
    worker_of,          \* the pool thread running the target's task (0: none)
    uuids_issued,       \* how many uuid4() values have been drawn
    run_id,             \* the target's run_id (None until drawn)
    attempt,            \* run_codex's attempt counter
    usage_limit_wait,   \* run_codex's usage_limit_wait of the current attempt
    signal_seen,        \* the attempt in progress has printed a usage-limit signal
    signal_parsed,      \* what the last such line gave (None: nothing, or no line)
    sleep_for,          \* the backoff being slept (None when not sleeping)
    exit_code,          \* process.wait() of the attempt that was returned
    result,             \* the metrics dict _run_target built (None before)
    invocations,        \* the run ids carried by the target's Popen calls
    backoffs,           \* how many times run_codex has slept for the target
    log_files,          \* the files of the log directory: path, and the target
                        \* and the attempt whose output the file holds
    metrics_lock,       \* holder of _metrics_lock (0: free)
    metrics_file,       \* what this run has written to codex_metrics.jsonl
    collected,          \* futures main() has taken from as_completed
    metrics_list,       \* main()'s metrics_list
    failures,           \* main()'s failures counter
    main_pc,            \* "config", "collect", "shutdown" (the pool's), "exited"
    summary,            \* the summary written (None when not written)
    exit_status,        \* the process exit status (None while running)
    config_ok,          \* the configs load and hold every required field
    target_valid,       \* the target's entry has function and file_path
    exception,          \* what left the target's _run_target, if it raised
    preflight_error_file \* preflight_error.txt is in the target's proof directory

vars ==
    <<dry_run, jobs, limit, target_exists, pricing, session_log,
      coverage_report, result_report, template, use_examples, prompt,
      log_files, pc, worker_of, uuids_issued, run_id,
      attempt, usage_limit_wait, signal_seen, signal_parsed, sleep_for, exit_code, result,
      invocations, backoffs, metrics_lock, metrics_file, collected,
      metrics_list, failures, main_pc, summary, exit_status,
      config_ok, target_valid, exception, preflight_error_file,
      newest_first, session_store, function, write_fault,
      old_files, fix_argv, fix_calls, metrics_dir>>

workerVars ==
    <<pc, worker_of, uuids_issued, run_id, attempt, usage_limit_wait,
      signal_seen, signal_parsed, sleep_for, exit_code, result, invocations, backoffs,
      log_files, prompt, exception, preflight_error_file, session_store>>

mainVars == <<collected, metrics_list, failures, main_pc, summary, exit_status>>

inputVars ==
    <<dry_run, jobs, limit, target_exists, pricing, session_log,
      coverage_report, result_report, template, use_examples,
      config_ok, target_valid, newest_first, function, write_fault,
      old_files, fix_argv>>

fixVars == <<fix_calls, metrics_dir>>

(* --------------------------- main(): set-up ---------------------------- *)

\* selected_targets = targets[: args.limit] if args.limit else targets
SelectedTargets == IF limit = 0 THEN Targets ELSE {t \in Targets : t <= limit}

\* A pool with one thread more than asked for.
MaxWorkersOneMore == jobs + 1

\* ThreadPoolExecutor(max_workers=max(1, args.jobs))
MaxWorkers == IF jobs > 1 THEN jobs ELSE 1

\* A task occupies its pool thread from the moment the thread takes it until
\* _run_target returns or raises.
TaskDone(t) == pc[t] \in {"returned", "raised"}
Active(t) == pc[t] \notin {"unselected", "queued", "returned", "raised"}
Busy(w) == \E t \in Targets : worker_of[t] = w

\* A function name: a stem, and the numbers N of the texts _attempt<N> it
\* ends with, if any.
FunctionName(stem, suffix) == [stem |-> stem, suffix |-> suffix]

\* Every target has a stem of its own.
PlainNames == [t \in Targets |-> FunctionName(t, <<>>)]

\* The second target is named as the first with _attempt1 added; the names
\* are still pairwise distinct.
AttemptLikeNames ==
    [t \in Targets |->
        IF t = 2 THEN FunctionName(1, <<1>>) ELSE FunctionName(t, <<>>)]

\* Configs that load, with their required fields and with function and
\* file_path in every target entry, the functions plainly named.
ValidConfig ==
    /\ config_ok = TRUE
    /\ target_valid = [t \in Targets |-> TRUE]
    /\ function = PlainNames

\* Any command line and any set of target files.
AnyArgs ==
    /\ ValidConfig
    /\ dry_run \in BOOLEAN
    /\ jobs \in 0..MaxJobs
    \* a limit of NumTargets or more selects what limit = 0 selects
    /\ limit \in 0..(NumTargets - 1)
    /\ target_exists \in [Targets -> BOOLEAN]

\* --limit 1 --jobs 1 on targets whose files exist, with or without --dry-run.
OneTarget ==
    /\ ValidConfig
    /\ dry_run \in BOOLEAN
    /\ jobs = 1
    /\ limit = 1
    /\ target_exists = [t \in Targets |-> TRUE]

\* No pricing in the config.
NoPricing == pricing = None

\* No session file holds a marker of this run.
NoSessions == session_log = [t \in Targets |-> None]

\* The writing of a record to the metrics file: it goes well ("none"),
\* open() raises OSError ("open"), or f.write or the closing of the file
\* raises OSError after the text of the record has reached the file
\* ("write").
WriteFaults == {"none", "open", "write"}

NoWriteFaults == write_fault = [t \in Targets |-> "none"]

\* One line of a metrics file left by earlier runs, by what process_file
\* and the coverage fixer make of it: a line that is blank, no JSON or no
\* JSON object ("nonjson"), a record without a proof_dir ("noproofdir"), a
\* record whose coverage is not what read_coverage_metrics gives now
\* ("stale"), and such a record of a proof directory whose coverage report
\* makes read_coverage_metrics raise ("badreport").  A record whose text is
\* what the fixer would write is "fresh".
MetricsLines == {"nonjson", "noproofdir", "stale", "badreport"}

\* The arguments of one invocation: --revert and --dry-run.
FixArgs == [revert : BOOLEAN, dry_run : BOOLEAN]

\* No metrics file from earlier runs; after the run the file is fixed and
\* the fix is reverted.
FixThenRevert ==
    /\ old_files = [file |-> None, old |-> None]
    /\ fix_argv = <<[revert |-> FALSE, dry_run |-> FALSE],
                    [revert |-> TRUE, dry_run |-> FALSE]>>

\* No rollout file is under the sessions root, and glob yields the files in
\* the order they are made.
NoRollouts ==
    /\ newest_first = FALSE
    /\ session_store = <<>>

\* No proof directory holds a report.
NoReports ==
    /\ coverage_report = [t \in Targets |-> CoverageFile("missing", NoOverall, <<>>)]
    /\ result_report = [t \in Targets |-> ResultFile("missing", 0)]

\* The sample template, rendered without its examples.
SamplePrompt ==
    /\ template = SampleTemplate
    /\ use_examples = FALSE

\* main() before the first task is taken.
Start ==
    /\ log_files = {}
    /\ prompt = [t \in Targets |-> None]
    /\ pc = [t \in Targets |-> IF t \in SelectedTargets THEN "queued" ELSE "unselected"]
    /\ worker_of = [t \in Targets |-> 0]
    /\ uuids_issued = 0
    /\ run_id = [t \in Targets |-> None]
    /\ attempt = [t \in Targets |-> 0]
    /\ usage_limit_wait = [t \in Targets |-> None]
    /\ signal_seen = [t \in Targets |-> FALSE]
    /\ signal_parsed = [t \in Targets |-> None]
    /\ sleep_for = [t \in Targets |-> None]
    /\ exit_code = [t \in Targets |-> None]
    /\ result = [t \in Targets |-> None]
    /\ invocations = [t \in Targets |-> <<>>]
    /\ backoffs = [t \in Targets |-> 0]
    /\ metrics_lock = 0
    /\ metrics_file = <<>>
    /\ collected = {}
    /\ metrics_list = <<>>
    /\ failures = 0
    /\ main_pc = "config"
    /\ summary = None
    /\ exit_status = None
    /\ exception = [t \in Targets |-> None]
    /\ preflight_error_file = [t \in Targets |-> FALSE]
    /\ fix_calls = <<>>
    /\ metrics_dir = None

Init ==
    /\ AnyArgs
    /\ NoPricing
    /\ NoSessions
    /\ NoReports
    /\ SamplePrompt
    /\ NoRollouts
    /\ NoWriteFaults
    /\ FixThenRevert
    /\ Start

(* ----------------------------- _run_target ----------------------------- *)

\* A preflight check that lets every target through.
PreflightErrorNever(t) == FALSE

\* preflight_error is set when the target file does not exist.
PreflightError(t) == ~target_exists[t]

(* ------------------- remove_section and render_prompt ------------------ *)

\* The positions of any bracketed text.
OccurrencesOfAnyBracket(text) == {i \in 1..Len(text) : text[i] \in Brackets}

\* The positions of the text [Examples].
Occurrences(text) == {i \in 1..Len(text) : text[i] = "[Examples]"}

Least(S) == CHOOSE i \in S : \A j \in S : i <= j

\* The positions after position p of a line break directly followed by a
\* bracketed text: where the group (\n\[[^\]]+\]) of the pattern can match.
HeadersAfter(text, p) ==
    {k \in (p + 1)..(Len(text) - 1) :
        text[k] = "\n" /\ text[k + 1] \in Brackets}

\* remove_section(text, "Examples"): the leftmost match of the pattern
\* starts at the first [Examples] and, being lazy, ends with the first line
\* break and bracketed text after it, which are put back; without such a
\* match the text is cut at the first [Examples]; without [Examples] it is
\* returned as it is.
RemoveSection(text) ==
    IF Occurrences(text) = {} THEN text
    ELSE LET p == Least(Occurrences(text)) IN
         IF HeadersAfter(text, p) = {} THEN SubSeq(text, 1, p - 1)
         ELSE SubSeq(text, 1, p - 1)
                  \o SubSeq(text, Least(HeadersAfter(text, p)), Len(text))

\* str.format_map(ctx) raises KeyError for a placeholder whose key is not
\* in ctx.
FormatRaises(text) == \E i \in 1..Len(text) : text[i] = "{UNKNOWN}"

\* str.format_map(ctx): every placeholder is replaced by its value.
FormatMap(text) ==
    [i \in 1..Len(text) |->
        IF text[i] = "{FUNCTION_NAME}" THEN "value" ELSE text[i]]

\* A rendering that removes the section whatever use_examples is.
UnformattedWithoutExamples == RemoveSection(template)

\* out before format_map.
Unformatted == IF ~use_examples THEN RemoveSection(template) ELSE template

\* A rendering that lets every placeholder through.
RenderRaisesNever == FALSE

\* render_prompt raises what format_map raises.
RenderRaises == FormatRaises(Unformatted)

\* render_prompt(template, ctx, use_examples)
RenderPrompt == FormatMap(Unformatted)

\* inject_run_marker: the marker line with the run id, a blank line and the
\* rendered prompt.
InjectRunMarker(text, rid) == [run_id |-> rid, text |-> text]

(* ------------- find_session_file_by_marker and token usage ------------- *)

\* A rollout file: the run id of the marker in its lines (0: it has none of
\* this run), the target and the attempt whose agent wrote it (0: not of
\* this run), and whether reading it through goes without an exception.
RolloutFile(marker, t, n, readable) ==
    [marker |-> marker, target |-> t, attempt |-> n, readable |-> readable]

\* Rollout files of other runs: they hold no marker of this run, and open()
\* or the decoding of their lines may raise.
ForeignRollouts == {RolloutFile(0, 0, 0, r) : r \in BOOLEAN}

\* The agent, launched with the prompt, writes its session file, which holds
\* the prompt with its marker; glob will yield it before or after the files
\* already there.
WriteSession(store, file) ==
    IF newest_first THEN <<file>> \o store ELSE Append(store, file)

\* A scan that ends at the first file it cannot read.
MatchesBeforeUnreadable(store, rid) ==
    {i \in 1..Len(store) :
        /\ store[i].marker = rid
        /\ \A j \in 1..i : store[j].readable}

\* The candidates in whose lines the marker is found: a file whose reading
\* raises is passed over (except Exception: continue).
Matches(store, rid) ==
    {i \in 1..Len(store) : store[i].readable /\ store[i].marker = rid}

\* find_session_file_by_marker(run_id): the first candidate, in glob's
\* order, with the marker in one of its lines, or None.
FindSessionFileByMarker(store, rid) ==
    IF Matches(store, rid) = {} THEN None
    ELSE Some(store[Least(Matches(store, rid))])

\* The lines of a session file of this run.
SessionLinesOf(file) == session_log[file.target][1]

\* Token fields that read zero where nothing is known.
ZeroTokens ==
    [input_tokens |-> Some(0), cached_tokens |-> Some(0),
     output_tokens |-> Some(0), reasoning_tokens |-> Some(0),
     total_tokens |-> Some(0)]

\* The dict of five None values.
NoTokens ==
    [input_tokens |-> None, cached_tokens |-> None,
     output_tokens |-> None, reasoning_tokens |-> None,
     total_tokens |-> None]

\* The loop over the lines of the session file: last_total after the lines
\* from the i-th on.  json.loads failing skips the line; .get on a value that
\* is not a dict raises AttributeError, which the outer except answers with
\* last_total = None, the rest of the file unread.
RECURSIVE ScanSession(_, _, _)
ScanSession(lines, i, last_total) ==
    IF i > Len(lines) THEN last_total
    ELSE LET line == lines[i] IN
         CASE line.kind = "nonjson" -> ScanSession(lines, i + 1, last_total)
           [] line.kind \in {"nonobject", "badfield"} -> None
           [] line.kind \in {"other", "nototal"} ->
                  ScanSession(lines, i + 1, last_total)
           [] line.kind = "usage" ->
                  ScanSession(lines, i + 1, Some(line.usage))

\* An input count reduced by the cached count whatever their order.
InputTokensAlwaysReduced(raw_input, cached) ==
    IF raw_input # None /\ cached # None
    THEN Some(raw_input[1] - cached[1])
    ELSE raw_input

\* An input count that keeps the cached overlap.
InputTokensRaw(raw_input, cached) == raw_input

\* input_tokens: raw_input - cached when both are integers and
\* cached <= raw_input, else raw_input as it is.
InputTokens(raw_input, cached) ==
    IF raw_input # None /\ cached # None /\ cached[1] <= raw_input[1]
    THEN Some(raw_input[1] - cached[1])
    ELSE raw_input

\* The five token fields out of the last total_token_usage object.
TokenFields(last_total) ==
    LET input_tokens == InputTokens(last_total.input_tokens,
                                    last_total.cached_input_tokens)
        cached == last_total.cached_input_tokens
        output_tokens == last_total.output_tokens
        reasoning_tokens == last_total.reasoning_output_tokens
    IN [input_tokens |-> input_tokens,
        cached_tokens |-> cached,
        output_tokens |-> output_tokens,
        reasoning_tokens |-> reasoning_tokens,
        total_tokens |->
            IF None \notin {input_tokens, cached, output_tokens,
                            reasoning_tokens}
            THEN Some(input_tokens[1] + cached[1] + output_tokens[1]
                          + reasoning_tokens[1])
            ELSE last_total.total_tokens]

\* parse_token_usage_from_session, on the lines of the file that was found.
ParseTokenUsageFromSession(lines) ==
    LET last_total == ScanSession(lines, 1, None)
    IN IF last_total = None THEN NoTokens ELSE TokenFields(last_total[1])

(* ---------------------------- estimate_cost ---------------------------- *)

\* A category that costs nothing when its rate is missing.
CostZeroWithoutRate(count, rate) ==
    IF count = None THEN None
    ELSE IF rate = None THEN Some(0) ELSE Some(count[1] * rate[1])

\* A category that gets cheaper as its rate grows.
CostFallingWithRate(count, rate) ==
    IF count = None \/ rate = None THEN None
    ELSE Some(count[1] * (MaxRate + 1 - rate[1]))

\* _cost: (count / 1_000_000.0) * rate, None when the count or the rate is
\* None.  Costs are kept in millionths of the currency unit, so the cost is
\* count * rate.
Cost(count, rate) ==
    IF count = None \/ rate = None THEN None ELSE Some(count[1] * rate[1])

\* total_cost: the sum of the costs that are not None, None when there is
\* none.
TotalCost(costs) ==
    LET known == {i \in 1..Len(costs) : costs[i] # None}
        vals == [i \in 1..Len(costs) |->
                    IF costs[i] = None THEN 0 ELSE costs[i][1]]
    IN IF known = {} THEN None ELSE Some(SumOver(vals, 1..Len(costs)))

NoCosts ==
    [input_cost |-> None, output_cost |-> None, cached_cost |-> None,
     reasoning_cost |-> None, total_cost |-> None]

\* estimate_cost: all None without pricing; a table without any rate (the
\* empty dict is one) gives the same.
EstimateCost(tokens, table) ==
    IF table = None THEN NoCosts
    ELSE LET input_cost == Cost(tokens.input_tokens, table[1].input_per_1m)
             output_cost == Cost(tokens.output_tokens, table[1].output_per_1m)
             cached_cost == Cost(tokens.cached_tokens, table[1].cached_per_1m)
             reasoning_cost ==
                 Cost(tokens.reasoning_tokens, table[1].reasoning_per_1m)
         IN [input_cost |-> input_cost,
             output_cost |-> output_cost,
             cached_cost |-> cached_cost,
             reasoning_cost |-> reasoning_cost,
             total_cost |-> TotalCost(<<input_cost, output_cost,
                                        cached_cost, reasoning_cost>>)]

(* -------- read_coverage_metrics and read_verification_results --------- *)

\* A count of line entries that takes in the harness files.
CountedLinesAll(lines) == {i \in 1..Len(lines) : TRUE}

\* The line entries that are counted: those of files whose path does not end
\* in "_harness.c".
CountedLines(lines) == {i \in 1..Len(lines) : ~lines[i].harness}

\* The strings a status is compared with.
HitWords ==
    {Hit, <<"c", "o", "v", "e", "r", "e", "d">>, <<"1">>, <<"t", "r", "u", "e">>}

\* str.lower, on the characters of the statuses.
LowerChar(c) ==
    CASE c = "C" -> "c"
      [] c = "H" -> "h"
      [] c = "I" -> "i"
      [] c = "T" -> "t"
      [] OTHER -> c

Lower(str) == [i \in DOMAIN str |-> LowerChar(str[i])]

\* A comparison of the status as it is spelled.
IsHitAsSpelled(status) == status \in HitWords

\* str(status).lower() in {"hit", "covered", "1", "true"}
IsHit(status) == Lower(status) \in HitWords

\* A non_harness whose percentage is 0 (0 / 1) when no line is counted.
NonHarnessZeroPercent(lines) ==
    LET non_harness_total == Cardinality(CountedLines(lines))
        non_harness_hit ==
            Cardinality({i \in CountedLines(lines) : IsHit(lines[i].status)})
    IN [hit |-> non_harness_hit,
        total |-> non_harness_total,
        percentage |-> IF non_harness_total # 0
                       THEN Some(<<non_harness_hit, non_harness_total>>)
                       ELSE Some(<<0, 1>>)]

\* non_harness of a report: hit, total and hit / total (None for total 0).
NonHarness(lines) ==
    LET non_harness_total == Cardinality(CountedLines(lines))
        non_harness_hit ==
            Cardinality({i \in CountedLines(lines) : IsHit(lines[i].status)})
    IN [hit |-> non_harness_hit,
        total |-> non_harness_total,
        percentage |-> IF non_harness_total # 0
                       THEN Some(<<non_harness_hit, non_harness_total>>)
                       ELSE None]

\* A missing report read as a report of no lines.
UnknownCoverageAsZero ==
    [overall |-> Some([hit |-> Some(0), total |-> Some(0), percentage |-> None]),
     non_harness |-> Some(NonHarness(<<>>))]

\* What read_coverage_metrics returns when the file is not there or
\* json.load fails.
UnknownCoverage == [overall |-> None, non_harness |-> None]

\* data.get, viewer.get or overall.get on a value that is not a dict raises
\* AttributeError, outside any try.
CoverageRaises(file) == file.kind \in {"nonobject", "badviewer"}

\* read_coverage_metrics, when it returns.  An object without the
\* viewer-coverage key is read as a report with an empty summary and an
\* empty coverage map.
ReadCoverageMetrics(file) ==
    CASE file.kind \in {"missing", "invalid"} -> UnknownCoverage
      [] file.kind = "noviewer" ->
             [overall |-> Some(NoOverall), non_harness |-> Some(NonHarness(<<>>))]
      [] file.kind = "report" ->
             [overall |-> Some(file.overall),
              non_harness |-> Some(NonHarness(file.lines))]

\* An empty list of findings read as no verdict.
ErrorCountNoneWhenEmpty(findings) ==
    IF findings = 0 THEN None ELSE Some(findings)

\* len(false_list)
ErrorCount(findings) == Some(findings)

ResultRaises(file) == file.kind \in {"nonobject", "badresults"}

\* read_verification_results, when it returns.  An object without the
\* viewer-result key has the empty list for false.
ReadVerificationResults(file) ==
    CASE file.kind \in {"missing", "invalid"} -> [error_count |-> None]
      [] file.kind = "noresult" -> [error_count |-> ErrorCount(0)]
      \* results.get("false", []), and [] for a value that is not a list
      [] file.kind \in OddFalseKinds -> [error_count |-> ErrorCount(0)]
      [] file.kind = "report" -> [error_count |-> ErrorCount(file.findings)]

\* Reading the reports of the target's proof directory raises.
ReadRaises(t) ==
    CoverageRaises(coverage_report[t]) \/ ResultRaises(result_report[t])

(* ----------------------------- the record ------------------------------ *)

\* A run_codex that has no dry-run mode.
RunCodexDryRunNever(t) == FALSE

\* if dry_run: print the command and return (0, 0.0).
RunCodexDryRun(t) == dry_run

\* The wall-clock seconds of a target's n-th attempt: attempts take time,
\* and no two attempts of a target the same.
AttemptSeconds(n) == n

\* The seconds since run_codex was called: every attempt so far and the
\* sleeps between them, each of five seconds at least.
SecondsSinceCall(t) ==
    SumOver([n \in 1..attempt[t] |-> AttemptSeconds(n)], 1..attempt[t])
        + 5 * backoffs[t]

\* attempt_duration = time.time() - attempt_start, of the attempt in
\* progress.
AttemptDuration(t) == AttemptSeconds(attempt[t])

\* tokens = parse_token_usage_from_session(session_path) if session_path
\* else the dict of five None values.
TokensOf(session_path) ==
    IF session_path # None
    THEN ParseTokenUsageFromSession(SessionLinesOf(session_path[1]))
    ELSE NoTokens

\* The metrics dict of a target that passed the preflight check, from what
\* run_codex returned.
Metrics(t, rid, code, preflight) ==
    LET session_path == FindSessionFileByMarker(session_store, rid[1])
        tokens == TokensOf(session_path)
    IN [function |-> t,
        log_path |-> Some(t),
        run_id |-> rid,
        session_path |-> session_path,
        success |-> (code = 0),
        exit_code |-> code,
        duration_sec |-> IF RunCodexDryRun(t) THEN 0 ELSE AttemptDuration(t),
        compile_success |-> coverage_report[t].kind # "missing",
        tokens |-> tokens,
        costs |-> EstimateCost(tokens, pricing),
        coverage |-> ReadCoverageMetrics(coverage_report[t]),
        verification |-> ReadVerificationResults(result_report[t]),
        preflight_error |-> preflight]

\* The dict written for a target rejected by the preflight check.
PreflightMetrics(t) ==
    [function |-> t,
     log_path |-> None,
     run_id |-> None,
     session_path |-> None,
     success |-> FALSE,
     exit_code |-> 1,
     duration_sec |-> 0,
     compile_success |-> FALSE,
     tokens |-> NoTokens,
     costs |-> EstimateCost(NoTokens, pricing),
     coverage |-> ReadCoverageMetrics(coverage_report[t]),
     verification |-> ReadVerificationResults(result_report[t]),
     preflight_error |-> TRUE]

\* What str.format_map raises for a placeholder whose key is not in ctx.
FormatError == Some("KeyError")

\* What leaves _run_target before run_codex is called with a live agent, if
\* anything: SystemExit from _fail for an entry without function or
\* file_path, KeyError from the rendering, AttributeError from the reading
\* of the reports.
StartRaises(t) ==
    IF ~target_valid[t] THEN Some("SystemExit")
    ELSE IF PreflightError(t)
    THEN (IF ReadRaises(t) THEN Some("AttributeError") ELSE None)
    ELSE IF RenderRaises THEN FormatError
    ELSE IF RunCodexDryRun(t) /\ ReadRaises(t) THEN Some("AttributeError")
    ELSE None

\* A pool thread takes the next queued task (the pool's queue is FIFO) and
\* runs _run_target up to the call of run_codex: the check of the entry (a
\* _fail, which raises SystemExit in the pool thread), the preflight check, the
\* (which writes preflight_error.txt for a missing target file), the
\* rendering of the prompt (which may raise) and the drawing of the run id.  In dry-run mode
\* run_codex returns (0, 0.0) at once, before any log directory or log file
\* is made, and the record is built.  Where the record is built the reports
\* are read, and an exception of the reading leaves _run_target.
StartTarget(t) ==
    /\ main_pc \in {"collect", "shutdown"}
    /\ pc[t] = "queued"
    /\ \A u \in Targets : u < t => pc[u] # "queued"
    /\ \E w \in 1..MaxWorkers :
        /\ ~Busy(w)
        /\ \A v \in 1..(w - 1) : Busy(v)
        /\ worker_of' = [worker_of EXCEPT ![t] =
                            IF StartRaises(t) # None THEN 0 ELSE w]
    /\ exception' = [exception EXCEPT ![t] = StartRaises(t)]
    /\ preflight_error_file' =
           [preflight_error_file EXCEPT ![t] = target_valid[t] /\ PreflightError(t)]
    /\ IF ~target_valid[t]
       THEN /\ pc' = [pc EXCEPT ![t] = "raised"]
            /\ UNCHANGED <<uuids_issued, run_id, exit_code, result, prompt>>
       ELSE IF PreflightError(t)
       THEN /\ IF ReadRaises(t)
               THEN /\ pc' = [pc EXCEPT ![t] = "raised"]
                    /\ UNCHANGED result
               ELSE /\ result' = [result EXCEPT ![t] = Some(PreflightMetrics(t))]
                    /\ pc' = [pc EXCEPT ![t] = "lock"]
            /\ UNCHANGED <<uuids_issued, run_id, exit_code, prompt>>
       ELSE IF RenderRaises
       THEN /\ pc' = [pc EXCEPT ![t] = "raised"]
            /\ UNCHANGED <<uuids_issued, run_id, exit_code, result, prompt>>
       ELSE /\ uuids_issued' = uuids_issued + 1
            /\ run_id' = [run_id EXCEPT ![t] = Some(uuids_issued + 1)]
            /\ prompt' = [prompt EXCEPT ![t] =
                   Some(InjectRunMarker(RenderPrompt, uuids_issued + 1))]
            /\ IF RunCodexDryRun(t)
               THEN /\ exit_code' = [exit_code EXCEPT ![t] = Some(0)]
                    /\ IF ReadRaises(t)
                       THEN /\ pc' = [pc EXCEPT ![t] = "raised"]
                            /\ UNCHANGED result
                       ELSE /\ result' = [result EXCEPT ![t] =
                                    Some(Metrics(t, Some(uuids_issued + 1), 0, FALSE))]
                            /\ pc' = [pc EXCEPT ![t] = "lock"]
               ELSE /\ pc' = [pc EXCEPT ![t] = "launch"]
                    /\ UNCHANGED <<exit_code, result>>
    /\ UNCHANGED <<attempt, usage_limit_wait, signal_seen, signal_parsed,
                   sleep_for, invocations, backoffs, log_files, session_store>>
    /\ UNCHANGED <<inputVars, fixVars, metrics_lock, metrics_file, mainVars>>

(* ------------------------------ run_codex ------------------------------ *)

\* log_path = os.path.join(log_dir, f"codex_{function}.log"): the files of
\* the log directory are told apart by the function name in their name.
LogPath(t) == function[t]

\* log_path_obj.with_name(f"{stem}_attempt{attempt}{suffix}")
AttemptLogPath(t, n) ==
    FunctionName(function[t].stem, Append(function[t].suffix, n))

\* The log file at a path, with the output of attempt k of target t.
LogFile(path, t, k) == [path |-> path, target |-> t, attempt |-> k]

\* The files of the log directory that hold output of target t.
LogsOf(t) == {f \in log_files : f.target = t}

\* open(attempt_log_path, "w"): the file of that name is made, or emptied,
\* for the output of attempt n of target t.
OpenAttemptLog(files, t, n) ==
    {f \in files : f.path # AttemptLogPath(t, n)}
        \cup {LogFile(AttemptLogPath(t, n), t, n)}

\* A copy of the attempt log to log_path, the attempt log kept.
CopyAttemptLog(files, t, n) ==
    {f \in files : f.path # LogPath(t)}
        \cup {LogFile(LogPath(t), f.target, f.attempt) :
                  f \in {g \in files : g.path = AttemptLogPath(t, n)}}

\* os.replace raises FileNotFoundError when nothing is at the attempt log
\* path any more.
ReplaceRaises(files, t, n) ==
    \A f \in files : f.path # AttemptLogPath(t, n)

\* os.replace(attempt_log_path, log_path_obj): what is at the attempt log
\* path takes the name log_path, replacing what was there.
ReplaceAttemptLog(files, t, n) ==
    {f \in files : f.path \notin {LogPath(t), AttemptLogPath(t, n)}}
        \cup {LogFile(LogPath(t), f.target, f.attempt) :
                  f \in {g \in files : g.path = AttemptLogPath(t, n)}}

\* The top of the retry loop: attempt += 1, the attempt log is opened and the
\* agent is launched with the prompt, which carries the target's run marker,
\* and starts its session file;
\* usage_limit_wait starts as None.  Spawning the process may raise OSError,
\* which leaves _run_target as an exception, the attempt log already made.
LaunchAttempt(t) ==
    /\ pc[t] = "launch"
    /\ attempt' = [attempt EXCEPT ![t] = @ + 1]
    /\ log_files' = OpenAttemptLog(log_files, t, attempt[t] + 1)
    /\ \/ /\ pc' = [pc EXCEPT ![t] = "running"]
          /\ invocations' = [invocations EXCEPT ![t] =
                                 Append(@, Some(prompt[t][1].run_id))]
          /\ usage_limit_wait' = [usage_limit_wait EXCEPT ![t] = None]
          /\ signal_seen' = [signal_seen EXCEPT ![t] = FALSE]
          /\ signal_parsed' = [signal_parsed EXCEPT ![t] = None]
          /\ session_store' =
                 IF session_log[t] = None THEN session_store
                 ELSE WriteSession(session_store,
                                   RolloutFile(prompt[t][1].run_id, t,
                                               attempt[t] + 1, TRUE))
          /\ UNCHANGED <<worker_of, exception>>
       \/ /\ pc' = [pc EXCEPT ![t] = "raised"]
          /\ exception' = [exception EXCEPT ![t] = Some("OSError")]
          /\ worker_of' = [worker_of EXCEPT ![t] = 0]
          /\ UNCHANGED <<invocations, usage_limit_wait, signal_seen,
                         signal_parsed, session_store>>
    /\ UNCHANGED <<uuids_issued, run_id, sleep_for, exit_code, result, backoffs,
                   prompt, preflight_error_file>>
    /\ UNCHANGED <<inputVars, fixVars, metrics_lock, metrics_file, mainVars>>

\* What the try block makes of a line that carries a usage-limit signal: the
\* integer resets_in_seconds of its JSON payload, or nothing.
ParsedResets(line) ==
    IF line.payload.kind = "int" THEN Some(line.payload.value) ELSE None

\* usage_limit_wait after one more line of output.
ScanLine(wait, line) ==
    IF line.signal /\ ParsedResets(line) # None THEN ParsedResets(line) ELSE wait

\* The attempts of the run that have met the usage limit so far: those slept
\* off and those in progress that have printed a signal.
LimitedAttempts ==
    SumOver(backoffs, Targets)
        + Cardinality({t \in Targets : pc[t] = "running" /\ signal_seen[t]})

\* How many usage limits a run is followed through: the more targets share
\* the run, the fewer.
UsageLimitBudget ==
    IF Cardinality(SelectedTargets) = 1 THEN MaxLimited
    ELSE IF Cardinality(SelectedTargets) = 2 THEN MaxLimitedShared
    ELSE MaxLimitedShared - 1

\* The agent prints one line; run_codex echoes it, logs it and scans it.
ReadLine(t) ==
    /\ pc[t] = "running"
    /\ \E line \in OutputLines :
        /\ line.signal => signal_seen[t] \/ LimitedAttempts < UsageLimitBudget
        /\ usage_limit_wait' =
               [usage_limit_wait EXCEPT ![t] = ScanLine(@, line)]
        /\ signal_seen' = [signal_seen EXCEPT ![t] = @ \/ line.signal]
        /\ signal_parsed' = [signal_parsed EXCEPT ![t] =
                                 IF line.signal THEN ParsedResets(line) ELSE @]
    /\ UNCHANGED <<pc, worker_of, uuids_issued, run_id, attempt, sleep_for,
                   exit_code, result, invocations, backoffs, log_files, prompt, exception,
                   preflight_error_file, session_store>>
    /\ UNCHANGED <<inputVars, fixVars, metrics_lock, metrics_file, mainVars>>

\* A backoff without the five seconds of slack.
SleepForNoSlack(wait) == wait[1]

\* sleep_for = usage_limit_wait + 5
SleepFor(wait) == wait[1] + 5

\* The exit codes an agent process may end with.
ExitCodes == {0, 1}

\* The agent exits.  With usage_limit_wait None the attempt log is moved to
\* log_path (which raises when the attempt log is gone) and run_codex returns; _run_target looks for the session file,
\* reads the reports and builds the metrics dict, unless the reading raises.
\* Otherwise run_codex sleeps.
AttemptExit(t) ==
    /\ pc[t] = "running"
    /\ \E code \in ExitCodes :
        IF usage_limit_wait[t] = None
        THEN IF ReplaceRaises(log_files, t, attempt[t])
             THEN /\ pc' = [pc EXCEPT ![t] = "raised"]
                  /\ exception' = [exception EXCEPT ![t] = Some("OSError")]
                  /\ worker_of' = [worker_of EXCEPT ![t] = 0]
                  /\ UNCHANGED <<exit_code, result, log_files, sleep_for,
                                 backoffs>>
             ELSE /\ exit_code' = [exit_code EXCEPT ![t] = Some(code)]
                  /\ log_files' = ReplaceAttemptLog(log_files, t, attempt[t])
                  /\ IF ReadRaises(t)
                     THEN /\ pc' = [pc EXCEPT ![t] = "raised"]
                          /\ exception' =
                                 [exception EXCEPT ![t] = Some("AttributeError")]
                          /\ worker_of' = [worker_of EXCEPT ![t] = 0]
                          /\ UNCHANGED result
                     ELSE /\ result' = [result EXCEPT ![t] =
                                          Some(Metrics(t, run_id[t], code, FALSE))]
                          /\ pc' = [pc EXCEPT ![t] = "lock"]
                          /\ UNCHANGED <<worker_of, exception>>
                  /\ UNCHANGED <<sleep_for, backoffs>>
        ELSE /\ sleep_for' = [sleep_for EXCEPT ![t] =
                                Some(SleepFor(usage_limit_wait[t]))]
             /\ backoffs' = [backoffs EXCEPT ![t] = @ + 1]
             /\ pc' = [pc EXCEPT ![t] = "sleeping"]
             /\ UNCHANGED <<exit_code, result, worker_of, log_files, exception>>
    /\ usage_limit_wait' = [usage_limit_wait EXCEPT ![t] = None]
    /\ signal_seen' = [signal_seen EXCEPT ![t] = FALSE]
    /\ signal_parsed' = [signal_parsed EXCEPT ![t] = None]
    /\ UNCHANGED <<uuids_issued, run_id, attempt, invocations, prompt,
                   preflight_error_file, session_store>>
    /\ UNCHANGED <<inputVars, fixVars, metrics_lock, metrics_file, mainVars>>

\* time.sleep(sleep_for) returns and the loop starts over.
WakeUp(t) ==
    /\ pc[t] = "sleeping"
    /\ pc' = [pc EXCEPT ![t] = "launch"]
    /\ sleep_for' = [sleep_for EXCEPT ![t] = None]
    /\ UNCHANGED <<worker_of, uuids_issued, run_id, attempt, usage_limit_wait,
                   signal_seen, signal_parsed, exit_code, result, invocations, backoffs,
                   log_files, prompt, exception,
                   preflight_error_file, session_store>>
    /\ UNCHANGED <<inputVars, fixVars, metrics_lock, metrics_file, mainVars>>

(* ---------------------------- write_metrics ---------------------------- *)

\* An append that does not wait for the lock.
LockAvailableAlways(t) == TRUE

\* with _metrics_lock: the lock is taken only when no thread holds it.
LockAvailable(t) == metrics_lock = 0

\* The line json.dumps(data) + "\n" reaches the file in two pieces, the text
\* of the record and then its end with the newline.
Chunk(t, part) == [rec |-> result[t][1], part |-> part]

\* A write at the start of the file.
WriteAtStart(file, chunk) == <<chunk>> \o file

\* open(path, "a") and f.write: what is written goes to the end of the file.
WriteAtEnd(file, chunk) == Append(file, chunk)

\* A with block that leaves the lock held.
LockKeptAfterRelease(t) == t

\* The lock after the with block is left.
LockAfterRelease(t) == 0

\* A with block that keeps the lock when its body raises.
LockKeptAfterRaise(t) == t

\* The lock after an exception has left the with block: __exit__ releases
\* it and the exception goes on.
LockAfterRaise(t) == LockAfterRelease(t)

\* The lock is taken, the file is opened for appending and the text of the
\* record is written.  Or open() raises: the with block of the lock is left
\* and the exception leaves _run_target.
BeginWrite(t) ==
    /\ pc[t] = "lock"
    /\ LockAvailable(t)
    /\ IF write_fault[t] = "open"
       THEN /\ metrics_lock' = LockAfterRaise(t)
            /\ pc' = [pc EXCEPT ![t] = "raised"]
            /\ exception' = [exception EXCEPT ![t] = Some("OSError")]
            /\ worker_of' = [worker_of EXCEPT ![t] = 0]
            /\ UNCHANGED metrics_file
       ELSE /\ metrics_lock' = t
            /\ metrics_file' = WriteAtEnd(metrics_file, Chunk(t, "text"))
            /\ pc' = [pc EXCEPT ![t] = "flush"]
            /\ UNCHANGED <<worker_of, exception>>
    /\ UNCHANGED <<uuids_issued, run_id, attempt, usage_limit_wait,
                   signal_seen, signal_parsed, sleep_for, exit_code, result, invocations,
                   backoffs, log_files, prompt,
                   preflight_error_file, session_store>>
    /\ UNCHANGED <<inputVars, fixVars, mainVars>>

\* The rest of the line is written, the file is closed, the lock is released
\* and _run_target returns the dict.  Or the writing raises: the file is
\* closed with the text it has got, the lock is released and the exception
\* leaves _run_target.
FinishWrite(t) ==
    /\ pc[t] = "flush"
    /\ IF write_fault[t] = "write"
       THEN /\ metrics_lock' = LockAfterRaise(t)
            /\ pc' = [pc EXCEPT ![t] = "raised"]
            /\ exception' = [exception EXCEPT ![t] = Some("OSError")]
            /\ UNCHANGED metrics_file
       ELSE /\ metrics_file' = WriteAtEnd(metrics_file, Chunk(t, "newline"))
            /\ metrics_lock' = LockAfterRelease(t)
            /\ pc' = [pc EXCEPT ![t] = "returned"]
            /\ UNCHANGED exception
    /\ worker_of' = [worker_of EXCEPT ![t] = 0]
    /\ UNCHANGED <<uuids_issued, run_id, attempt, usage_limit_wait,
                   signal_seen, signal_parsed, sleep_for, exit_code, result, invocations,
                   backoffs, log_files, prompt,
                   preflight_error_file, session_store>>
    /\ UNCHANGED <<inputVars, fixVars, mainVars>>

(* ------------------------- main(): collection -------------------------- *)

\* A count that overlooks the futures that raised.
CountsAsFailureExitCodeOnly(t) ==
    pc[t] = "returned" /\ result[t][1].exit_code # 0

\* Whether main() counts a finished future as a failure: it raised, or its
\* dict has a non-zero exit_code.
CountsAsFailure(t) ==
    \/ pc[t] = "raised"
    \/ result[t][1].exit_code # 0

\* check_codex_prereqs, load_config twice and the checks of the required
\* fields and of the list of targets: main() goes on to submit the selected
\* targets to the pool, or the process ends with status 1 (through _fail,
\* or with the exception of the YAML parser).
LoadConfig ==
    /\ main_pc = "config"
    /\ IF config_ok
       THEN /\ main_pc' = "collect"
            /\ UNCHANGED exit_status
       ELSE /\ main_pc' = "exited"
            /\ exit_status' = Some(1)
    /\ UNCHANGED <<collected, metrics_list, failures, summary>>
    /\ UNCHANGED <<inputVars, fixVars, workerVars, metrics_lock, metrics_file>>

\* One iteration of the as_completed loop.  future.result() raises what left
\* _run_target; except Exception does not catch SystemExit, which leaves the
\* loop and the with block of the pool.
CollectFuture(t) ==
    /\ main_pc = "collect"
    /\ TaskDone(t)
    /\ t \notin collected
    /\ collected' = collected \cup {t}
    /\ IF exception[t] = Some("SystemExit")
       THEN /\ main_pc' = "shutdown"
            /\ UNCHANGED <<metrics_list, failures>>
       ELSE /\ metrics_list' = IF pc[t] = "returned"
                               THEN Append(metrics_list, result[t][1])
                               ELSE metrics_list
            /\ failures' = IF CountsAsFailure(t) THEN failures + 1 ELSE failures
            /\ UNCHANGED main_pc
    /\ UNCHANGED <<summary, exit_status>>
    /\ UNCHANGED <<inputVars, fixVars, workerVars, metrics_lock, metrics_file>>

\* A summary that counts every submitted target.
SummarizeSubmitted(list) ==
    IF Len(list) = 0
    THEN None ELSE Some([targets_total |-> Cardinality(SelectedTargets)])

\* summarize_metrics: {} for an empty list, else a dict with targets_total.
SummarizeMetrics(list) ==
    IF Len(list) = 0 THEN None ELSE Some([targets_total |-> Len(list)])

\* A loop that is left at the first failure.
LoopOverAtFirstFailure == collected = SelectedTargets \/ failures # 0

\* as_completed has yielded every submitted future.
LoopOver == collected = SelectedTargets

\* A process that ends with status 1 whatever the count.
StatusAlwaysFailure(count) == Some(1)

\* if failures: _fail(...): status 1 through sys.exit(1), or main() returns
\* and the status is 0.
StatusAfterLoop(count) == IF count # 0 THEN Some(1) ELSE Some(0)

\* The loop is over: the summary is written when it is not empty, and the
\* process exits, through _fail (status 1) when failures is not zero.  Or the
\* loop was left by SystemExit: the pool's shutdown(wait=True) has waited for
\* every submitted task, and the process exits with status 1, no summary
\* written.
FinishRun ==
    /\ \/ main_pc = "collect" /\ LoopOver
       \/ main_pc = "shutdown" /\ \A t \in SelectedTargets : TaskDone(t)
    /\ summary' = IF main_pc = "collect"
                  THEN SummarizeMetrics(metrics_list) ELSE summary
    /\ exit_status' = IF main_pc = "shutdown"
                      THEN Some(1) ELSE StatusAfterLoop(failures)
    /\ main_pc' = "exited"
    /\ UNCHANGED <<collected, metrics_list, failures>>
    /\ UNCHANGED <<inputVars, fixVars, workerVars, metrics_lock, metrics_file>>

(* ------------------------ fix_codex_metrics.py ------------------------- *)

\* The lines the run has appended, as process_file reads them: a record as
\* json.dumps wrote it, or text that is no JSON where a write broke off.
RECURSIVE AppendedLines(_, _, _)
AppendedLines(file, i, texts) ==
    IF i > Len(file) THEN IF texts = 0 THEN <<>> ELSE <<"nonjson">>
    ELSE IF file[i].part = "text" THEN AppendedLines(file, i + 1, texts + 1)
    ELSE <<IF texts = 1 THEN "fresh" ELSE "nonjson">>
             \o AppendedLines(file, i + 1, 0)

\* The metrics file and the files next to it when the run is over: the
\* file holds what it held before and what the run has appended, and is
\* not there when there was none and the run wrote nothing.
DirAtExit ==
    [file |-> IF old_files.file = None /\ metrics_file = <<>> THEN None
              ELSE Some((IF old_files.file = None THEN <<>>
                         ELSE old_files.file[1])
                            \o AppendedLines(metrics_file, 1, 0)),
     old |-> old_files.old,
     broken |-> None,
     tmp |-> <<>>]

\* The files as the next invocation finds them.
DirNow == IF metrics_dir = None THEN DirAtExit ELSE metrics_dir[1]

\* fix_coverage raises what read_coverage_metrics raises.
FixerRaises(line) == line = "badreport"

\* What process_file writes for a line: the line as it is, or
\* json.dumps(record) + "\n" for a record the fixer has changed; the
\* coverage fixer changes every record that has a proof_dir.
FixLine(line) == IF line = "stale" THEN "fresh" ELSE line

\* The lines written before the first record on which the fixer raises.
RECURSIVE WrittenLines(_, _)
WrittenLines(lines, i) ==
    IF i > Len(lines) \/ FixerRaises(lines[i]) THEN <<>>
    ELSE <<FixLine(lines[i])>> \o WrittenLines(lines, i + 1)

\* An in-place replacement that makes no backup.
ReplaceWithoutBackup(dir, out) == [dir EXCEPT !.file = Some(out)]

\* backup_path.unlink() if it is there, in_path.replace(backup_path),
\* out_path.replace(in_path)
ReplaceInPlace(dir, out) == [dir EXCEPT !.file = Some(out), !.old = dir.file]

\* A revert that swaps the file and its backup.
SwapWithBackup(dir) == [dir EXCEPT !.file = dir.old, !.old = dir.file]

\* path.replace(<name>.broken), backup_path.replace(path)
RestoreBackup(dir) ==
    [dir EXCEPT !.broken = dir.file, !.file = dir.old, !.old = None]

\* main() of fix_codex_metrics.py without --revert, on the metrics file of
\* the run that is over: process_file, in place.  The output goes to a
\* temporary file that takes the place of the metrics file at the end; with
\* --dry-run nothing is opened for writing; when a fixer raises, the
\* temporary file stays behind.
ProcessFile ==
    /\ main_pc = "exited"
    /\ Len(fix_calls) < Len(fix_argv)
    /\ LET args == fix_argv[Len(fix_calls) + 1]
           dir == DirNow
       IN /\ ~args.revert
          /\ IF dir.file = None
             THEN /\ fix_calls' = Append(fix_calls, "missing")
                  /\ metrics_dir' = Some(dir)
             ELSE IF \E i \in 1..Len(dir.file[1]) : FixerRaises(dir.file[1][i])
             THEN /\ fix_calls' = Append(fix_calls, "AttributeError")
                  /\ metrics_dir' =
                         Some(IF args.dry_run THEN dir
                              ELSE [dir EXCEPT !.tmp =
                                       Append(@, WrittenLines(dir.file[1], 1))])
             ELSE IF args.dry_run
             THEN /\ fix_calls' = Append(fix_calls, "would change")
                  /\ metrics_dir' = Some(dir)
             ELSE /\ fix_calls' = Append(fix_calls, "changed")
                  /\ metrics_dir' =
                         Some(ReplaceInPlace(dir, WrittenLines(dir.file[1], 1)))
    /\ UNCHANGED <<inputVars, workerVars, mainVars, metrics_lock, metrics_file>>

\* main() of fix_codex_metrics.py with --revert.
Revert ==
    /\ main_pc = "exited"
    /\ Len(fix_calls) < Len(fix_argv)
    /\ LET args == fix_argv[Len(fix_calls) + 1]
           dir == DirNow
       IN /\ args.revert
          /\ IF dir.file = None
             THEN /\ fix_calls' = Append(fix_calls, "missing")
                  /\ metrics_dir' = Some(dir)
             ELSE IF dir.old = None
             THEN /\ fix_calls' = Append(fix_calls, "missing backup")
                  /\ metrics_dir' = Some(dir)
             ELSE IF args.dry_run
             THEN /\ fix_calls' = Append(fix_calls, "would restore")
                  /\ metrics_dir' = Some(dir)
             ELSE /\ fix_calls' = Append(fix_calls, "restored")
                  /\ metrics_dir' = Some(RestoreBackup(dir))
    /\ UNCHANGED <<inputVars, workerVars, mainVars, metrics_lock, metrics_file>>

(* --------------------------- specification ----------------------------- *)

Worker(t) ==
    \/ StartTarget(t)
    \/ LaunchAttempt(t)
    \/ ReadLine(t)
    \/ AttemptExit(t)
    \/ WakeUp(t)
    \/ BeginWrite(t)
    \/ FinishWrite(t)

Main == LoadConfig \/ (\E t \in Targets : CollectFuture(t)) \/ FinishRun

FixCodexMetrics == ProcessFile \/ Revert

Next == (\E t \in Targets : Worker(t)) \/ Main \/ FixCodexMetrics

Spec == Init /\ [][Next]_vars

\* Every step but the printing of one more line by a running agent.
Progress ==
    \/ \E t \in Targets :
          \/ StartTarget(t)
          \/ LaunchAttempt(t)
          \/ AttemptExit(t)
          \/ WakeUp(t)
          \/ BeginWrite(t)
          \/ FinishWrite(t)
    \/ Main

\* Threads that can run are scheduled, sleeps end and every agent process
\* exits.
FairSpec == Init /\ [][Next]_vars /\ WF_vars(Progress)

(* ------------- one target, with what the agent left behind ------------ *)

\* A session file of one line, a token-count record with any usage object.
OneRecordLogs == {<<UsageLine(u)>> : u \in TotalTokenUsages}

\* Session files of up to MaxLogLines lines of every kind.
MixedLogs == SeqsUpTo(SessionLines({UsageEarly, UsageLate}), MaxLogLines)

\* Session files of one record whose counts are missing or MaxCount.
CoarseLogs ==
    {<<UsageLine(u)>> :
        u \in {v \in TotalTokenUsages :
                  /\ v.total_tokens = None
                  /\ \A k \in DOMAIN v : v[k] \in {None, Some(MaxCount)}}}

\* The first target's session file is one of logs, or there is none when
\* orNone; the other targets have none.
SessionsFrom(logs, orNone) ==
    \E log \in {Some(l) : l \in logs} \cup (IF orNone THEN {None} ELSE {}) :
        session_log = [t \in Targets |-> IF t = 1 THEN log ELSE None]

TokenInit ==
    /\ OneTarget
    /\ NoPricing
    /\ SessionsFrom(OneRecordLogs, FALSE)
    /\ NoReports
    /\ SamplePrompt
    /\ NoRollouts
    /\ NoWriteFaults
    /\ FixThenRevert
    /\ Start

TokenSpec == TokenInit /\ [][Next]_vars

SessionInit ==
    /\ OneTarget
    /\ NoPricing
    /\ SessionsFrom(MixedLogs, TRUE)
    /\ NoReports
    /\ SamplePrompt
    /\ NoRollouts
    /\ NoWriteFaults
    /\ FixThenRevert
    /\ Start

SessionSpec == SessionInit /\ [][Next]_vars

CostInit ==
    /\ OneTarget
    /\ pricing \in {None} \cup {Some(p) : p \in PricingTables}
    /\ SessionsFrom(CoarseLogs, TRUE)
    /\ NoReports
    /\ SamplePrompt
    /\ NoRollouts
    /\ NoWriteFaults
    /\ FixThenRevert
    /\ Start

CostSpec == CostInit /\ [][Next]_vars

\* Any readable coverage report, or a file that cannot be read.
CoverageInit ==
    /\ OneTarget
    /\ NoPricing
    /\ NoSessions
    /\ \E file \in CoverageReports
                   \cup {CoverageFile(k, NoOverall, <<>>) : k \in BrokenCoverageKinds} :
           coverage_report =
               [t \in Targets |->
                   IF t = 1 THEN file ELSE CoverageFile("missing", NoOverall, <<>>)]
    /\ result_report = [t \in Targets |-> ResultFile("missing", 0)]
    /\ SamplePrompt
    /\ NoRollouts
    /\ NoWriteFaults
    /\ FixThenRevert
    /\ Start

CoverageSpec == CoverageInit /\ [][Next]_vars

\* Any readable coverage report without a summary, its statuses in any of
\* their spellings.
StatusInit ==
    /\ OneTarget
    /\ NoPricing
    /\ NoSessions
    /\ \E file \in StatusReports :
           coverage_report =
               [t \in Targets |->
                   IF t = 1 THEN file ELSE CoverageFile("missing", NoOverall, <<>>)]
    /\ result_report = [t \in Targets |-> ResultFile("missing", 0)]
    /\ SamplePrompt
    /\ NoRollouts
    /\ NoWriteFaults
    /\ FixThenRevert
    /\ Start

StatusSpec == StatusInit /\ [][Next]_vars

\* Any verification report, with or without a list under false, or a file
\* that cannot be read.
VerificationInit ==
    /\ OneTarget
    /\ NoPricing
    /\ NoSessions
    /\ coverage_report = [t \in Targets |-> CoverageFile("missing", NoOverall, <<>>)]
    /\ \E file \in ResultReports
                   \cup {ResultFile(k, 0) : k \in BrokenResultKinds \cup OddFalseKinds} :
           result_report =
               [t \in Targets |-> IF t = 1 THEN file ELSE ResultFile("missing", 0)]
    /\ SamplePrompt
    /\ NoRollouts
    /\ NoWriteFaults
    /\ FixThenRevert
    /\ Start

VerificationSpec == VerificationInit /\ [][Next]_vars

\* A coverage report whose summary and coverage map disagree: two counted
\* lines, one of them hit, and a harness line, under a summary of one line.
SampleCoverage ==
    CoverageFile("report",
                 [hit |-> Some(1), total |-> Some(1), percentage |-> Some(<<1, 1>>)],
                 <<[harness |-> FALSE, status |-> Hit],
                   [harness |-> TRUE, status |-> Hit],
                   [harness |-> FALSE, status |-> Missed]>>)

SamplePricing ==
    [input_per_1m |-> Some(MaxRate), output_per_1m |-> Some(MaxRate),
     cached_per_1m |-> Some(0), reasoning_per_1m |-> None]

\* One target, its file there or not, with every state of the two report
\* files, with or without a session file and with or without pricing.
RecordInit ==
    /\ ValidConfig
    /\ dry_run \in BOOLEAN
    /\ jobs = 1
    /\ limit = 1
    /\ target_exists \in {[t \in Targets |-> t # 1 \/ b] : b \in BOOLEAN}
    /\ pricing \in {None, Some(SamplePricing)}
    /\ SessionsFrom({<<UsageLine(UsageLate)>>}, TRUE)
    /\ \E file \in {SampleCoverage}
                   \cup {CoverageFile(k, NoOverall, <<>>) : k \in BrokenCoverageKinds} :
           coverage_report =
               [t \in Targets |->
                   IF t = 1 THEN file ELSE CoverageFile("missing", NoOverall, <<>>)]
    /\ \E file \in ResultReports
                   \cup {ResultFile(k, 0) : k \in BrokenResultKinds} :
           result_report =
               [t \in Targets |-> IF t = 1 THEN file ELSE ResultFile("missing", 0)]
    /\ SamplePrompt
    /\ NoRollouts
    /\ NoWriteFaults
    /\ FixThenRevert
    /\ Start

RecordSpec == RecordInit /\ [][Next]_vars

\* Templates with a placeholder that has no value in ctx: in the text, in
\* the Examples section, and after it.
UnresolvedTemplates ==
    {<<"text", "{UNKNOWN}">>,
     <<"{FUNCTION_NAME}", "\n", "[Examples]", "{UNKNOWN}">>,
     <<"[Examples]", "text", "\n", "[Section]", "{UNKNOWN}">>}

\* Every template, with and without --use-examples, in a dry run of one
\* target; and the sample template and the templates with an unresolved
\* placeholder with the agent run.
PromptInit ==
    /\ ValidConfig
    /\ jobs = 1
    /\ limit = 1
    /\ target_exists = [t \in Targets |-> TRUE]
    /\ \/ /\ dry_run = TRUE
          /\ template \in Templates
          /\ use_examples \in BOOLEAN
       \/ /\ dry_run = FALSE
          /\ SamplePrompt
       \/ /\ dry_run = FALSE
          /\ template \in UnresolvedTemplates
          /\ use_examples \in BOOLEAN
    /\ NoPricing
    /\ NoSessions
    /\ NoReports
    /\ NoRollouts
    /\ NoWriteFaults
    /\ FixThenRevert
    /\ Start

PromptSpec == PromptInit /\ [][Next]_vars

\* One target whose agent writes a session file or none, under a sessions
\* root that holds up to MaxRollouts files of other runs, readable or not,
\* with glob yielding the newest or the oldest file first.
LocatorInit ==
    /\ ValidConfig
    /\ dry_run = FALSE
    /\ jobs = 1
    /\ limit = 1
    /\ target_exists = [t \in Targets |-> TRUE]
    /\ NoPricing
    /\ SessionsFrom({<<UsageLine(UsageLate)>>}, TRUE)
    /\ newest_first \in BOOLEAN
    /\ session_store \in SeqsUpTo(ForeignRollouts, MaxRollouts)
    /\ NoReports
    /\ SamplePrompt
    /\ NoWriteFaults
    /\ FixThenRevert
    /\ Start

LocatorSpec == LocatorInit /\ [][Next]_vars

\* Dry runs of every target, and runs of the agent for the first target,
\* the writing of each record going well or not.
WriteInit ==
    /\ ValidConfig
    /\ jobs \in 1..MaxJobs
    /\ \/ dry_run = TRUE /\ limit = 0
       \/ dry_run = FALSE /\ limit = 1
    /\ target_exists = [t \in Targets |-> TRUE]
    /\ write_fault \in [Targets -> WriteFaults]
    /\ NoPricing
    /\ NoSessions
    /\ NoReports
    /\ SamplePrompt
    /\ NoRollouts
    /\ FixThenRevert
    /\ Start

\* Threads that can run are scheduled, sleeps end and every agent process
\* exits.
WriteSpec == WriteInit /\ [][Next]_vars /\ WF_vars(Progress)

\* A run of one target, over any metrics file of up to MaxOldLines lines
\* with or without a backup next to it, followed by up to MaxFixCalls
\* invocations of fix_codex_metrics.py, of any kind.
FixInit ==
    /\ ValidConfig
    /\ dry_run = FALSE
    /\ jobs = 1
    /\ limit = 1
    /\ target_exists = [t \in Targets |-> TRUE]
    /\ old_files \in
           [file : {None} \cup {Some(l) : l \in SeqsUpTo(MetricsLines, MaxOldLines)},
            old : {None, Some(<<"stale">>)}]
    /\ fix_argv \in SeqsUpTo(FixArgs, MaxFixCalls)
    /\ NoPricing
    /\ NoSessions
    /\ NoReports
    /\ SamplePrompt
    /\ NoRollouts
    /\ NoWriteFaults
    /\ Start

FixSpec == FixInit /\ [][Next]_vars

\* Every target selected and its file there, the functions plainly named or
\* the second one named as the first with _attempt1 added.
NamesInit ==
    /\ config_ok = TRUE
    /\ target_valid = [t \in Targets |-> TRUE]
    /\ function \in {PlainNames, AttemptLikeNames}
    /\ dry_run = FALSE
    /\ jobs \in 1..MaxJobs
    /\ limit = 0
    /\ target_exists = [t \in Targets |-> TRUE]
    /\ NoPricing
    /\ NoSessions
    /\ NoReports
    /\ SamplePrompt
    /\ NoRollouts
    /\ NoWriteFaults
    /\ FixThenRevert
    /\ Start

NamesSpec == NamesInit /\ [][Next]_vars

\* Every target selected and its file there, with configs that load or do
\* not, and with or without function and file_path in each target entry.
ConfigInit ==
    /\ config_ok \in BOOLEAN
    /\ target_valid \in [Targets -> BOOLEAN]
    /\ function = PlainNames
    /\ dry_run = FALSE
    /\ jobs \in 1..MaxJobs
    /\ limit = 0
    /\ target_exists = [t \in Targets |-> TRUE]
    /\ NoPricing
    /\ NoSessions
    /\ NoReports
    /\ SamplePrompt
    /\ NoRollouts
    /\ NoWriteFaults
    /\ FixThenRevert
    /\ Start

ConfigSpec == ConfigInit /\ [][Next]_vars

(* ------------------- the target state machine of 4.7 ------------------- *)

Rejected(t) == result[t] # None /\ result[t][1].preflight_error

TargetState(t) ==
    CASE pc[t] = "unselected" -> "UNSELECTED"
      [] pc[t] = "queued" -> "PENDING"
      [] pc[t] \notin {"unselected", "queued"} /\ Rejected(t) -> "REJECTED"
      [] pc[t] \in {"launch", "running", "sleeping", "lock", "flush"}
             /\ ~Rejected(t) -> "RUNNING"
      [] pc[t] \in {"returned", "raised"} /\ ~Rejected(t) -> "COMPLETED"

\* The complete lines of the metrics file that are records of target t: the
\* positions of a record's text directly followed by its own line end.
RecordLines(t) ==
    {i \in 1..(Len(metrics_file) - 1) :
        /\ metrics_file[i].part = "text"
        /\ metrics_file[i].rec.function = t
        /\ metrics_file[i + 1] = [rec |-> metrics_file[i].rec, part |-> "newline"]}

(* ------------------------------- claims -------------------------------- *)

\* C1: after the run has finished, the metrics file holds exactly one record
\* for every selected target's function name: none is missing, none is there
\* twice.
C1_ExactlyOneRecordPerTarget ==
    main_pc = "exited" =>
        \A t \in SelectedTargets : Cardinality(RecordLines(t)) = 1

\* C2: at most one worker at a time is inside the append, and it is the
\* holder of the lock; every record is one whole line: a record's text is
\* directly followed by its own line end, or is the last thing in the file
\* and belongs to the worker that is inside the append.
C2_SerializedWholeLines ==
    /\ Cardinality({t \in Targets : pc[t] = "flush"}) <= 1
    /\ \A t \in Targets : pc[t] = "flush" <=> metrics_lock = t
    /\ \A i \in 1..Len(metrics_file) :
        LET c == metrics_file[i] IN
        /\ c.part = "text" /\ i < Len(metrics_file) =>
               metrics_file[i + 1] = [rec |-> c.rec, part |-> "newline"]
        /\ c.part = "text" /\ i = Len(metrics_file) =>
               pc[c.rec.function] = "flush"
        /\ c.part = "newline" =>
               i > 1 /\ metrics_file[i - 1] = [rec |-> c.rec, part |-> "text"]

\* C2 witness: one worker is inside the append, its record half written,
\* while another waits for the lock with its own record.
C2_Witness ==
    \E t, u \in Targets :
        /\ t # u
        /\ pc[t] = "flush"
        /\ pc[u] = "lock"
        /\ metrics_file[Len(metrics_file)].part = "text"

\* C3: for a target whose source file does not exist the agent is never
\* launched, in no attempt and with or without dry-run, nothing is retried,
\* and the record built and written for it has success = false and
\* exit_code = 1.
C3_PreflightShortCircuit ==
    \A t \in Targets : ~target_exists[t] =>
        /\ invocations[t] = <<>>
        /\ attempt[t] = 0
        /\ backoffs[t] = 0
        /\ pc[t] \notin {"launch", "running", "sleeping", "raised"}
        /\ pc[t] \notin {"unselected", "queued"} =>
               /\ result[t] # None
               /\ result[t][1].success = FALSE
               /\ result[t][1].exit_code = 1
        /\ \A i \in 1..Len(metrics_file) :
               metrics_file[i].rec.function = t =>
                   /\ metrics_file[i].rec.success = FALSE
                   /\ metrics_file[i].rec.exit_code = 1

\* C3 witness: outside dry-run, a target with a missing source file has
\* returned and its record is in the file, while another target's agent ran.
C3_Witness ==
    \E t, u \in Targets :
        /\ ~dry_run
        /\ ~target_exists[t]
        /\ pc[t] = "returned"
        /\ RecordLines(t) # {}
        /\ invocations[u] # <<>>

\* C4: whenever the attempt that ends has printed a usage-limit signal, its
\* result is not returned: run_codex goes to sleep (for the parsed reset
\* value plus 5 seconds, or for a fallback when nothing could be parsed) and
\* the next attempt follows.
C4_SignalledAttemptIsRetried ==
    [][\A t \in Targets :
          (pc[t] = "running" /\ signal_seen[t] /\ pc'[t] # "running") =>
              /\ pc'[t] = "sleeping"
              /\ sleep_for'[t] # None
              /\ result'[t] = None]_vars

C6_FreshIdPerInvocation ==
    \A t, u \in Targets :
        \A i \in 1..Len(invocations[t]) :
            \A j \in 1..Len(invocations[u]) :
                (t # u \/ i # j) => invocations[t][i] # invocations[u][j]

\* The session file found for the target's run id.
OwnSession(t) ==
    IF run_id[t] = None THEN None
    ELSE FindSessionFileByMarker(session_store, run_id[t][1])

\* What decides a target's record: its own source file, dry-run and its own
\* agent's last exit code.
OwnRecord(t) ==
    [function |-> t,
     run_id |-> run_id[t],
     session_path |-> OwnSession(t),
     log_path |-> IF target_exists[t] THEN Some(t) ELSE None,
     duration_sec |-> IF ~target_exists[t] \/ dry_run THEN 0
                      ELSE AttemptSeconds(attempt[t]),
     compile_success |->
         target_exists[t] /\ coverage_report[t].kind # "missing",
     tokens |-> TokensOf(OwnSession(t)),
     costs |-> EstimateCost(TokensOf(OwnSession(t)), pricing),
     coverage |-> ReadCoverageMetrics(coverage_report[t]),
     verification |-> ReadVerificationResults(result_report[t]),
     success |-> target_exists[t] /\ (dry_run \/ exit_code[t] = Some(0)),
     exit_code |-> IF ~target_exists[t] THEN 1
                   ELSE IF dry_run THEN 0 ELSE exit_code[t][1],
     preflight_error |-> ~target_exists[t]]

\* C7: a failing target (non-zero exit, preflight rejection, an exception in
\* its worker) neither cancels nor alters another target: a queued target
\* whose turn has come can start whatever has failed (once main() has made
\* the pool and submitted the targets), the process does not
\* exit before every selected target's task is over, a target's record is
\* decided by its own file and its own agent alone, and the record of a task
\* that returned is in the file, once, as built.
C7_FailureIsolation ==
    \A t \in SelectedTargets :
        /\ (/\ main_pc # "config"
            /\ pc[t] = "queued"
            /\ \A u \in Targets : u < t => pc[u] # "queued"
            /\ Cardinality({u \in Targets : Active(u)})
                   < (IF jobs >= 1 THEN jobs ELSE 1))
               => ENABLED StartTarget(t)
        /\ exit_status # None => TaskDone(t)
        /\ result[t] # None => result[t][1] = OwnRecord(t)
        /\ pc[t] = "returned" =>
               \E i \in RecordLines(t) :
                   /\ RecordLines(t) = {i}
                   /\ metrics_file[i].rec = OwnRecord(t)

\* C7 witness: with one pool thread, the first target's worker raised and the
\* second target, started after that, returned with success and its record
\* written; the process has exited.
C7_Witness ==
    /\ jobs = 1
    /\ exit_status # None
    /\ \E t, u \in SelectedTargets :
        /\ t < u
        /\ pc[t] = "raised"
        /\ pc[u] = "returned"
        /\ result[u][1].success
        /\ RecordLines(u) # {}

\* A target has failed: its worker raised, its source file is missing, or
\* its agent's last exit code is not 0.
TargetFailed(t) ==
    \/ pc[t] = "raised"
    \/ ~target_exists[t]
    \/ exit_code[t] # None /\ exit_code[t] # Some(0)

\* C8: the process exits only after every selected target has been attempted
\* and its task is over; it exits with a non-zero status exactly when a
\* selected target failed; the failure count is the number of failed targets
\* collected so far, each counted once, and at the exit the number of failed
\* selected targets.
C8_FailureExit ==
    /\ failures = Cardinality({t \in collected : TargetFailed(t)})
    /\ main_pc # "exited" => exit_status = None
    /\ main_pc = "exited" =>
        /\ collected = SelectedTargets
        /\ \A t \in SelectedTargets : TaskDone(t)
        /\ failures = Cardinality({t \in SelectedTargets : TargetFailed(t)})
        /\ exit_status = IF \E t \in SelectedTargets : TargetFailed(t)
                         THEN Some(1) ELSE Some(0)

\* C8 witness: the process has exited with status 1 and a count of two after
\* one target's worker raised and another target's agent exited non-zero.
C8_Witness ==
    /\ main_pc = "exited"
    /\ exit_status = Some(1)
    /\ failures = 2
    /\ \E t, u \in SelectedTargets :
        /\ pc[t] = "raised"
        /\ pc[u] = "returned"
        /\ exit_code[u] = Some(1)

\* C9: the targets being processed never outnumber --jobs (1 when --jobs is
\* below 1); a target is being processed exactly while a pool thread runs
\* it, and no pool thread runs two targets at once, so a thread takes its
\* next target only when its current one is over.
C9_BoundedPool ==
    /\ Cardinality({t \in Targets : Active(t)}) <= (IF jobs >= 1 THEN jobs ELSE 1)
    /\ \A t \in Targets :
        /\ Active(t) <=> worker_of[t] # 0
        /\ worker_of[t] \in 0..(IF jobs >= 1 THEN jobs ELSE 1)
    /\ \A t, u \in Targets :
        (t # u /\ Active(t) /\ Active(u)) => worker_of[t] # worker_of[u]

\* C9 witness: with --jobs 1 the only pool thread is in a backoff sleep for
\* one target while the next target is still queued.
C9_Witness ==
    /\ jobs = 1
    /\ \E t, u \in Targets : pc[t] = "sleeping" /\ pc[u] = "queued"

\* C10: under fair scheduling every selected target ends REJECTED or
\* COMPLETED with its task over and the process exits, for good; and a
\* target's state only ever moves PENDING -> REJECTED, PENDING -> RUNNING or
\* RUNNING -> COMPLETED.
C10_Termination ==
    /\ <>[](/\ main_pc = "exited"
            /\ \A t \in SelectedTargets :
                   /\ TargetState(t) \in {"REJECTED", "COMPLETED"}
                   /\ TaskDone(t))
    /\ [][\A t \in Targets :
              \/ TargetState(t)' = TargetState(t)
              \/ <<TargetState(t), TargetState(t)'>> \in
                     {<<"PENDING", "REJECTED">>,
                      <<"PENDING", "RUNNING">>,
                      <<"RUNNING", "COMPLETED">>}]_vars

\* C10 witness: the process has exited with one target REJECTED and another
\* COMPLETED after a backoff.
C10_Witness ==
    /\ main_pc = "exited"
    /\ \E t, u \in SelectedTargets :
        /\ TargetState(t) = "REJECTED"
        /\ TargetState(u) = "COMPLETED"
        /\ backoffs[u] >= 1

\* The lines of the session file the record of target t was read from.
LogOf(t) == session_log[t][1]

\* C12: whenever the token-count record has integer input, cached, output
\* and reasoning counts with cached <= input, the record's input_tokens is
\* the upstream input minus the cached count and its total_tokens is the sum
\* of the reported input, cached, output and reasoning counts, whatever
\* total the upstream record carried.
C12_TokenNormalization ==
    \A t \in Targets :
        (result[t] # None /\ result[t][1].session_path # None) =>
            LET u == LogOf(t)[1].usage
                r == result[t][1].tokens
            IN (/\ None \notin {u.input_tokens, u.cached_input_tokens,
                                u.output_tokens, u.reasoning_output_tokens}
                /\ u.cached_input_tokens[1] <= u.input_tokens[1]) =>
                   /\ r.input_tokens =
                          Some(u.input_tokens[1] - u.cached_input_tokens[1])
                   /\ r.cached_tokens = u.cached_input_tokens
                   /\ r.total_tokens =
                          Some(r.input_tokens[1] + r.cached_tokens[1]
                                   + r.output_tokens[1] + r.reasoning_tokens[1])

\* C12 witness: a written record read from a usage object with a cached
\* count above 0 and an upstream total of 0: the reported input is smaller
\* than the upstream input and the reported total is not the upstream one.
C12_Witness ==
    \E t \in Targets :
        /\ pc[t] = "returned"
        /\ RecordLines(t) # {}
        /\ result[t][1].session_path # None
        /\ LET u == LogOf(t)[1].usage
               r == result[t][1].tokens
           IN /\ u.total_tokens = Some(0)
              /\ u.input_tokens = Some(MaxCount)
              /\ u.cached_input_tokens = Some(1)
              /\ u.output_tokens = Some(1)
              /\ u.reasoning_output_tokens = Some(1)
              /\ r.input_tokens = Some(MaxCount - 1)
              /\ r.total_tokens = Some(MaxCount + 2)

\* The positions of the lines of a log that are event_msg/token_count
\* records carrying a total_token_usage object.
MatchingLines(log) == {i \in 1..Len(log) : log[i].kind = "usage"}

LastOf(S) == CHOOSE i \in S : \A j \in S : j <= i

\* C13: for every session file, whatever lines it holds, the record's token
\* fields are those of the last line that is a token-count record with a
\* total_token_usage object, no other line having any effect; they are all
\* absent only when the file has no such line.
C13_LastRecordWins ==
    \A t \in Targets :
        (result[t] # None /\ result[t][1].session_path # None) =>
            LET log == LogOf(t)
                r == result[t][1].tokens
            IN IF MatchingLines(log) = {}
               THEN r = NoTokens
               ELSE /\ r = TokenFields(log[LastOf(MatchingLines(log))].usage)
                    /\ r # NoTokens

\* The categories of a cost estimate: the cost field, the token field it is
\* computed from and the rate it is computed with.
CostCategories ==
    {<<"input_cost", "input_tokens", "input_per_1m">>,
     <<"output_cost", "output_tokens", "output_per_1m">>,
     <<"cached_cost", "cached_tokens", "cached_per_1m">>,
     <<"reasoning_cost", "reasoning_tokens", "reasoning_per_1m">>}

RateOf(table, key) == IF table = None THEN None ELSE table[1][key]

\* C14: in the cost estimate of a record, a category's cost is there exactly
\* when its token count and its rate are both known, and is then count times
\* rate; total_cost is the sum of the category costs that are there, so a
\* category without a rate is left out and does not zero the total; and
\* total_cost is absent exactly when no category has a cost.
C14_CostPresence ==
    \A t \in Targets : result[t] # None =>
        LET r == result[t][1]
            present == {c \in CostCategories : r.costs[c[1]] # None}
        IN /\ \A c \in CostCategories :
                  /\ r.costs[c[1]] # None <=>
                         (r.tokens[c[2]] # None /\ RateOf(pricing, c[3]) # None)
                  /\ r.costs[c[1]] # None =>
                         r.costs[c[1]][1] =
                             r.tokens[c[2]][1] * RateOf(pricing, c[3])[1]
           /\ r.costs.total_cost = None <=> present = {}
           /\ present # {} =>
                  r.costs.total_cost[1] =
                      SumOver([c \in present |-> r.costs[c[1]][1]], present)

\* C14 witness: a written record with all four token counts known and a
\* pricing table that has a rate for output only: the output cost is the
\* only one there and the total, which is not zero, equals it.
C14_Witness ==
    \E t \in Targets :
        /\ pc[t] = "returned"
        /\ RecordLines(t) # {}
        /\ LET r == result[t][1] IN
            /\ None \notin {r.tokens.input_tokens, r.tokens.cached_tokens,
                            r.tokens.output_tokens, r.tokens.reasoning_tokens}
            /\ r.costs.input_cost = None
            /\ r.costs.cached_cost = None
            /\ r.costs.reasoning_cost = None
            /\ r.costs.output_cost = Some(MaxCount * MaxRate)
            /\ r.costs.total_cost = r.costs.output_cost

\* The tables that differ from the table p in one rate only, which is
\* larger in them.
OneRateLarger(p) ==
    UNION {{[p EXCEPT ![k] = Some(r)] : r \in (p[k][1] + 1)..MaxRate} :
              k \in {j \in DOMAIN p : p[j] # None}}

\* An absent total is no smaller than an absent one; two totals compare as
\* numbers.
NotSmaller(b, a) ==
    IF a = None \/ b = None THEN a = None /\ b = None ELSE b[1] >= a[1]

\* C15: the total_cost of a record, estimated with the pricing table of the
\* run, is not larger than the total_cost estimated for the same token
\* counts with any table that differs from it only in one larger rate.
C15_CostMonotone ==
    \A t \in Targets : (result[t] # None /\ pricing # None) =>
        \A q \in OneRateLarger(pricing[1]) :
            NotSmaller(EstimateCost(result[t][1].tokens, Some(q)).total_cost,
                       result[t][1].costs.total_cost)

\* C15 witness: a written record with a total cost, known input tokens above
\* 0 and an input rate that a larger one exists for: with that larger rate
\* the total is strictly larger.
C15_Witness ==
    \E t \in Targets :
        /\ pc[t] = "returned"
        /\ RecordLines(t) # {}
        /\ pricing # None
        /\ result[t][1].costs.total_cost # None
        /\ \E q \in OneRateLarger(pricing[1]) :
            /\ EstimateCost(result[t][1].tokens, Some(q)).total_cost[1]
                   > result[t][1].costs.total_cost[1]

\* C11: the record of a target that passed preflight has success = true
\* exactly when the exit code run_codex returned is 0, whether or not a
\* session file was found and whatever the session, coverage and
\* verification files hold; and when no session file was found, every token
\* field and every cost field of the record is absent.
C11_SuccessFromExitCodeOnly ==
    \A t \in Targets :
        (result[t] # None /\ ~result[t][1].preflight_error) =>
            LET r == result[t][1] IN
            /\ exit_code[t] # None
            /\ r.success = (exit_code[t] = Some(0))
            /\ r.session_path = None =>
                   /\ \A k \in DOMAIN r.tokens : r.tokens[k] = None
                   /\ \A k \in DOMAIN r.costs : r.costs[k] = None

\* C11 witness: with pricing configured and no session file found, an agent
\* that exited 0 left a written record with success = true and, the
\* coverage report being there, compile_success = true.
C11_Witness ==
    \E t \in Targets :
        /\ pc[t] = "returned"
        /\ RecordLines(t) # {}
        /\ ~dry_run
        /\ pricing # None
        /\ session_log[t] = None
        /\ Len(invocations[t]) >= 1
        /\ exit_code[t] = Some(0)
        /\ result[t][1].success
        /\ result[t][1].compile_success

\* The coverage report of target t is one that was read as a report.
ReadableCoverage(t) ==
    /\ result[t] # None
    /\ coverage_report[t].kind = "report"

\* The line entries of target t's report that are not in a harness file.
NonHarnessEntries(t) ==
    {i \in 1..Len(coverage_report[t].lines) :
        ~coverage_report[t].lines[i].harness}

\* C16: for every coverage report that can be read, the non_harness.total of
\* the record is at most its overall.total, and no line of a file whose
\* path ends in the harness suffix is counted in non_harness.
C16_NonHarnessWithinOverall ==
    \A t \in Targets : ReadableCoverage(t) =>
        LET c == result[t][1].coverage IN
        /\ c.overall[1].total # None
        /\ c.non_harness[1].total <= c.overall[1].total[1]
        /\ c.non_harness[1].total = Cardinality(NonHarnessEntries(t))

\* C16 as amended: for every coverage report that can be read, no line of a
\* harness file is counted in non_harness: non_harness.total is the number
\* of line entries outside harness files and non_harness.hit the number of
\* those with a hit status; and non_harness.total is at most overall.total
\* whenever the summary of the report gives a total that is not below the
\* number of line entries of its coverage map.
C16_NonHarnessRecomputed ==
    \A t \in Targets : ReadableCoverage(t) =>
        LET c == result[t][1].coverage
            file == coverage_report[t]
        IN /\ c.overall[1] = file.overall
           /\ c.non_harness[1].total = Cardinality(NonHarnessEntries(t))
           /\ c.non_harness[1].hit =
                  Cardinality({i \in NonHarnessEntries(t) :
                                   file.lines[i].status = <<"h", "i", "t">>})
           /\ (file.overall.total # None
                   /\ file.overall.total[1] >= Len(file.lines)) =>
                  c.non_harness[1].total <= c.overall[1].total[1]

\* C16 witness: a written record of a report with a harness line and a
\* counted line, under a summary that agrees with the coverage map:
\* non_harness.total is 1 and overall.total is 2.
C16_Witness ==
    \E t \in Targets :
        /\ pc[t] = "returned"
        /\ RecordLines(t) # {}
        /\ ReadableCoverage(t)
        /\ Len(coverage_report[t].lines) = 2
        /\ coverage_report[t].lines[1].harness
        /\ ~coverage_report[t].lines[2].harness
        /\ result[t][1].coverage.non_harness[1].total = 1
        /\ result[t][1].coverage.overall[1].total = Some(2)

\* C17: whatever the state of a target's coverage and verification report
\* files (missing, not JSON, JSON of another shape), reading them never
\* aborts the target: a task ends by an exception only when launching the
\* agent failed, the record of a task that returned is in the file, and the
\* fields read from a bad report are unknown (None), not zero.
C17_BadReportsDegrade ==
    \A t \in Targets :
        /\ pc[t] = "raised" => attempt[t] > Len(invocations[t])
        /\ pc[t] = "returned" => RecordLines(t) # {}
        /\ result[t] # None =>
               /\ coverage_report[t].kind \in BrokenCoverageKinds =>
                      /\ result[t][1].coverage.overall = None
                      /\ result[t][1].coverage.non_harness = None
               /\ result_report[t].kind \in BrokenResultKinds =>
                      result[t][1].verification.error_count = None

\* C18: a record built while the proof directory has no coverage report has
\* coverage overall = None and non_harness = None, not a summary of zeros;
\* one built from a verification report with an empty list of falsified
\* findings has error_count = 0, not None; one built without a verification
\* report has error_count = None.
C18_UnknownIsNotZero ==
    \A t \in Targets : result[t] # None =>
        LET r == result[t][1] IN
        /\ coverage_report[t].kind = "missing" =>
               /\ r.coverage.overall = None
               /\ r.coverage.non_harness = None
        /\ result_report[t] = ResultFile("report", 0) =>
               r.verification.error_count = Some(0)
        /\ result_report[t].kind = "missing" =>
               r.verification.error_count = None

\* C18 witness: a written record of a target without a coverage report and
\* with a verification report that lists no falsified finding.
C18_Witness ==
    \E t \in Targets :
        /\ pc[t] = "returned"
        /\ RecordLines(t) # {}
        /\ coverage_report[t].kind = "missing"
        /\ result_report[t] = ResultFile("report", 0)
        /\ result[t][1].coverage.overall = None
        /\ result[t][1].verification.error_count = Some(0)

\* C19: in dry-run mode no agent is launched, no attempt is made and no log
\* file exists for any target at any time; run_codex returns exit code 0,
\* and the record of every target that passed preflight has success = true,
\* exit_code = 0 and duration_sec = 0.
C19_DryRunIsInert ==
    dry_run =>
        \A t \in Targets :
            /\ invocations[t] = <<>>
            /\ attempt[t] = 0
            /\ backoffs[t] = 0
            /\ LogsOf(t) = {}
            /\ pc[t] \notin {"launch", "running", "sleeping"}
            /\ exit_code[t] \in {None, Some(0)}
            /\ (result[t] # None /\ target_exists[t]) =>
                   /\ result[t][1].success
                   /\ result[t][1].exit_code = 0
                   /\ result[t][1].duration_sec = 0

\* C19 witness: a dry run has exited with status 0 after the records of two
\* targets that passed preflight were written.
C19_Witness ==
    /\ dry_run
    /\ main_pc = "exited"
    /\ exit_status = Some(0)
    /\ \E t, u \in SelectedTargets :
        /\ t # u
        /\ target_exists[t] /\ target_exists[u]
        /\ RecordLines(t) # {} /\ RecordLines(u) # {}
        /\ result[t][1].duration_sec = 0
        /\ LogsOf(t) = {}

\* A section header is a bracketed text at the start of a line.
IsHeader(text, i) ==
    text[i] \in Brackets /\ (i = 1 \/ text[i - 1] = "\n")

ExamplesHeaders(text) ==
    {i \in 1..Len(text) : IsHeader(text, i) /\ text[i] = "[Examples]"}

\* The template without its Examples section: what stands before the
\* [Examples] header, and what stands from the next section header on, with
\* the line break that header's line starts after; the whole template when
\* it has no Examples section.
WithoutExamples(text) ==
    IF ExamplesHeaders(text) = {} THEN text
    ELSE LET h == Least(ExamplesHeaders(text))
             later == {j \in (h + 1)..Len(text) : IsHeader(text, j)}
         IN IF later = {} THEN SubSeq(text, 1, h - 1)
            ELSE SubSeq(text, 1, h - 1)
                     \o SubSeq(text, Least(later) - 1, Len(text))

\* C20: with use_examples = false the prompt of a target is the template
\* without its Examples section, placeholders filled in: everything from
\* the [Examples] header up to the next section header, or to the end of
\* the text when no header follows, is gone; everything before the header
\* and from the next header onward is there.
C20_ExamplesSectionRemoved ==
    \A t \in Targets :
        (prompt[t] # None /\ ~use_examples) =>
            prompt[t][1].text = FormatMap(WithoutExamples(template))

\* C21: the removal of the Examples section is idempotent: rendering the
\* template again with use_examples = false gives the prompt the target was
\* given, and removing the section from that prompt, from which it was
\* already removed, changes nothing.
C21_RemovalIdempotent ==
    \A t \in Targets :
        (prompt[t] # None /\ ~use_examples) =>
            /\ prompt[t][1].text = RenderPrompt
            /\ RemoveSection(prompt[t][1].text) = prompt[t][1].text

\* C21 as amended: rendering the template again with use_examples = false
\* gives the same prompt; and when the template holds the text [Examples]
\* once at most, removing the section from the prompt changes nothing.
C21_RemovalIdempotentOnce ==
    \A t \in Targets :
        (prompt[t] # None /\ ~use_examples) =>
            /\ prompt[t][1].text = RenderPrompt
            /\ Cardinality({i \in 1..Len(template) :
                               template[i] = "[Examples]"}) <= 1 =>
                   RemoveSection(prompt[t][1].text) = prompt[t][1].text

\* C21 witness: a template with one Examples section between two other
\* sections was rendered without it: the prompt is shorter than the
\* template and holds both other headers.
C21_Witness ==
    \E t \in Targets :
        /\ prompt[t] # None
        /\ ~use_examples
        /\ Cardinality({i \in 1..Len(template) : template[i] = "[Examples]"}) = 1
        /\ Cardinality({i \in 1..Len(template) : template[i] = "[Section]"}) = 2
        /\ Len(prompt[t][1].text) < Len(template)
        /\ Cardinality({i \in 1..Len(prompt[t][1].text) :
                           prompt[t][1].text[i] = "[Section]"}) = 2

\* A text holds a placeholder for which ctx has no value.
HasUnresolved(text) == \E i \in 1..Len(text) : text[i] = "{UNKNOWN}"

\* C22: the task of a target whose template holds a placeholder without a
\* value fails with TemplateError, no prompt is made and the agent is not
\* invoked; and no prompt holds such a placeholder.
C22_UnresolvedFailsWithTemplateError ==
    \A t \in Targets :
        /\ (/\ pc[t] \notin {"unselected", "queued"}
            /\ target_valid[t] /\ target_exists[t]
            /\ HasUnresolved(template))
               => /\ pc[t] = "raised"
                  /\ exception[t] = Some("TemplateError")
                  /\ prompt[t] = None
                  /\ invocations[t] = <<>>
        /\ prompt[t] # None => ~HasUnresolved(prompt[t][1].text)

\* C22 as amended: the task of a target whose template still holds a
\* placeholder without a value after the Examples section was removed (when
\* examples are not used) fails with KeyError, no prompt is made and the
\* agent is not invoked; and no prompt holds such a placeholder.
C22_UnresolvedFailsWithKeyError ==
    \A t \in Targets :
        /\ (/\ pc[t] \notin {"unselected", "queued"}
            /\ target_valid[t] /\ target_exists[t]
            /\ HasUnresolved(Unformatted))
               => /\ pc[t] = "raised"
                  /\ exception[t] = Some("KeyError")
                  /\ prompt[t] = None
                  /\ invocations[t] = <<>>
        /\ prompt[t] # None => ~HasUnresolved(prompt[t][1].text)

\* C22 witness: without --dry-run, a target's task has raised KeyError for a
\* placeholder outside the Examples section, and its agent was never
\* launched.
C22_Witness ==
    \E t \in Targets :
        /\ ~dry_run
        /\ HasUnresolved(Unformatted)
        /\ pc[t] = "raised"
        /\ exception[t] = Some("KeyError")
        /\ attempt[t] = 0

\* C23: when the configuration is in error (it does not load, a required
\* field is missing, or the entry of a selected target lacks function or
\* file_path), no agent is ever invoked and nothing is written to the
\* metrics file.
C23_ConfigErrorAbortsBeforeStart ==
    (~config_ok \/ \E t \in SelectedTargets : ~target_valid[t]) =>
        /\ \A t \in Targets : attempt[t] = 0 /\ invocations[t] = <<>>
        /\ metrics_file = <<>>

\* C24: the records are in the metrics file in the order in which the workers
\* appended them: every change of the file is a write by a worker inside
\* write_metrics, of its own record, after everything the file holds, which
\* stays as it is.
C24_AppendOrder ==
    [][metrics_file' # metrics_file =>
          \E t \in Targets :
              /\ pc[t] \in {"lock", "flush"}
              /\ pc'[t] # pc[t]
              /\ Len(metrics_file') = Len(metrics_file) + 1
              /\ SubSeq(metrics_file', 1, Len(metrics_file)) = metrics_file
              /\ metrics_file'[Len(metrics_file')].rec = result[t][1]]_vars

\* C24 witness: the record of the second target, submitted after the first,
\* is in the file before the record of the first.
C24_Witness ==
    \E i \in RecordLines(2), j \in RecordLines(1) : i < j

\* C25: once the task of a target whose file is missing has passed the
\* preflight check, preflight_error.txt is in its proof directory and the
\* target has a record with preflight_error set and with no token count, no
\* cost and no coverage figure, whatever its proof directory holds.
C25_RejectedRecordIsBare ==
    \A t \in Targets :
        (/\ pc[t] \notin {"unselected", "queued"}
         /\ target_valid[t]
         /\ ~target_exists[t])
            => /\ preflight_error_file[t]
               /\ result[t] # None
               /\ LET r == result[t][1]
                  IN /\ r.preflight_error
                     /\ \A k \in DOMAIN r.tokens : r.tokens[k] = None
                     /\ \A k \in DOMAIN r.costs : r.costs[k] = None
                     /\ r.coverage.overall = None
                     /\ r.coverage.non_harness = None

\* C26: when an attempt ends without a usage-limit signal seen, run_codex
\* returns: no sleep starts and no attempt follows, and the record built has
\* the exit code of that attempt, success from that exit code, and the
\* duration of that attempt alone.  A task that has left run_codex never
\* goes back into an attempt.
C26_FinalAttemptOnly ==
    [][\A t \in Targets :
          /\ (pc[t] = "running" /\ pc'[t] # "running" /\ ~signal_seen[t]) =>
                 /\ pc'[t] \in {"lock", "raised"}
                 /\ sleep_for'[t] = None
                 /\ backoffs'[t] = backoffs[t]
                 /\ attempt'[t] = attempt[t]
                 /\ exit_code'[t] # None
                 /\ result'[t] # None =>
                        /\ result'[t][1].exit_code = exit_code'[t][1]
                        /\ result'[t][1].success = (exit_code'[t][1] = 0)
                        /\ result'[t][1].duration_sec = AttemptSeconds(attempt[t])
          /\ pc[t] \in {"lock", "flush", "returned", "raised"} =>
                 /\ pc'[t] \in {"lock", "flush", "returned", "raised"}
                 /\ attempt'[t] = attempt[t]
                 /\ result'[t] = result[t]
                 /\ exit_code'[t] = exit_code[t]]_vars

\* C26 witness: a target was retried after a usage limit and its last
\* attempt, which ended with exit code 0, gave the record its exit code and
\* its duration.
C26_Witness ==
    \E t \in Targets :
        /\ backoffs[t] >= 1
        /\ attempt[t] >= 2
        /\ result[t] # None
        /\ result[t][1].exit_code = 0
        /\ result[t][1].success
        /\ result[t][1].duration_sec = AttemptSeconds(attempt[t])

\* C27: attempt n of a target writes to the log named after attempt n, for
\* n = 1, 2, ...; once run_codex has returned, log_path holds the output of
\* the last attempt and of no other, and each earlier, usage-limited attempt
\* has its output under its own attempt-numbered name, where the last
\* attempt has none.
C27_LogsByAttempt ==
    \A t \in Targets :
        IF exit_code[t] # None /\ attempt[t] >= 1
        THEN LogsOf(t) =
                 {[path |-> AttemptLogPath(t, n), target |-> t, attempt |-> n] :
                     n \in 1..(attempt[t] - 1)}
                     \cup {[path |-> LogPath(t), target |-> t,
                            attempt |-> attempt[t]]}
        ELSE LogsOf(t) =
                 {[path |-> AttemptLogPath(t, n), target |-> t, attempt |-> n] :
                     n \in 1..attempt[t]}

\* C27 witness: run_codex has returned after two usage-limited attempts and
\* a third one.
C27_Witness ==
    \E t \in Targets :
        /\ exit_code[t] # None
        /\ attempt[t] = 3
        /\ backoffs[t] = 2
        /\ Cardinality(LogsOf(t)) = 3

\* C28: the wait before a retry comes from the usage-limit line that
\* triggered it, the last one of the attempt: it is that line's parsed reset
\* value plus 5 seconds, and when that line has no parseable reset value it
\* is a fallback, a wait made from no reset value of an earlier line.
C28_WaitNeverStale ==
    [][\A t \in Targets :
          (pc[t] = "running" /\ pc'[t] = "sleeping") =>
              /\ sleep_for'[t] # None
              /\ IF signal_parsed[t] # None
                 THEN sleep_for'[t] = Some(signal_parsed[t][1] + 5)
                 ELSE sleep_for'[t] \notin {Some(r + 5) : r \in Resets}]_vars

\* The rollout files that hold the marker of target t's run id.
HoldingMarker(t) ==
    {i \in 1..Len(session_store) : session_store[i].marker = run_id[t][1]}

\* C29: the run id of a target whose agent wrote a session file is in
\* exactly one rollout file, and the session file named in the target's
\* record is the one written by the attempt whose exit code the record has,
\* the last one.
C29_SessionOfFinalAttempt ==
    \A t \in Targets :
        (/\ result[t] # None
         /\ attempt[t] >= 1
         /\ session_log[t] # None)
            => /\ Cardinality(HoldingMarker(t)) = 1
               /\ result[t][1].session_path # None
               /\ result[t][1].session_path[1].target = t
               /\ result[t][1].session_path[1].attempt = attempt[t]

\* C30: the session file named in a record is a rollout file under the
\* sessions root that holds the marker of the target's run id; and a record
\* names none only when no readable rollout file holds it, whatever files
\* that cannot be read are scanned before.
C30_LocatorFindsMarker ==
    \A t \in Targets :
        (result[t] # None /\ run_id[t] # None) =>
            LET found == result[t][1].session_path
            IN /\ found # None =>
                      /\ \E i \in 1..Len(session_store) : session_store[i] = found[1]
                      /\ found[1].marker = run_id[t][1]
               /\ found = None =>
                      \A i \in 1..Len(session_store) :
                          ~(/\ session_store[i].readable
                            /\ session_store[i].marker = run_id[t][1])

\* C30 witness: the record names the session file of the target's agent,
\* which glob yielded after a file that cannot be read.
C30_Witness ==
    \E t \in Targets :
        /\ result[t] # None
        /\ result[t][1].session_path # None
        /\ \E i, j \in 1..Len(session_store) :
               /\ i < j
               /\ ~session_store[i].readable
               /\ session_store[j] = result[t][1].session_path[1]

\* C31: a record built from a readable verification report has error_count
\* equal to the length of the list under false; where false holds an empty
\* value that is not a list, error_count is 0; where false is missing or
\* holds another value that is not a list, error_count is unknown (None).
C31_ErrorCountFromFalseList ==
    \A t \in Targets : result[t] # None =>
        LET r == result[t][1] IN
        /\ result_report[t].kind = "report" =>
               r.verification.error_count = Some(result_report[t].findings)
        /\ result_report[t].kind = "falseempty" =>
               r.verification.error_count = Some(0)
        /\ result_report[t].kind \in {"nofalse", "falsenotlist"} =>
               r.verification.error_count = None

\* C32: with pairwise distinct function names, a step of one worker leaves
\* every file of the log directory that holds another worker's output as it
\* is, under the name it has: no worker writes, renames or replaces a log
\* of another.
C32_WorkersOwnTheirLogs ==
    [][(\A t, u \in Targets : t # u => function[t] # function[u]) =>
          \A t \in Targets :
              pc'[t] # pc[t] =>
                  \A f \in log_files : f.target # t => f \in log_files']_vars

\* The lines of the metrics file that are complete.
CompleteRecords == {i \in 1..Len(metrics_file) : metrics_file[i].part = "newline"}

\* C33: the summary is written at most once (once written it is never
\* written again), only when every selected target has returned or raised,
\* and its targets_total is the number of records appended to the metrics
\* file during the run.
C33_SummaryOnceOverAppendedRecords ==
    [][/\ summary # None => summary' = summary
       /\ summary' # None =>
             /\ \A t \in SelectedTargets : pc'[t] \in {"returned", "raised"}
             /\ summary'[1].targets_total = Cardinality(CompleteRecords')]_vars

\* A summary over one record, of a run in which another target raised.
C33_Witness ==
    /\ summary # None
    /\ summary[1].targets_total = 1
    /\ Cardinality(CompleteRecords) = 1
    /\ \E t \in SelectedTargets : pc[t] = "raised"

\* The spellings of a status that, compared without regard to case, are one
\* of hit, covered, 1 and true.
C34_HitSpellings ==
    {<<"h", "i", "t">>, <<"H", "I", "T">>, <<"C", "o", "v", "e", "r", "e", "d">>,
     <<"1">>, <<"T", "r", "u", "e">>}

\* C34: for every readable coverage report, non_harness.total is the number
\* of line entries of the files whose path does not end in the harness
\* suffix, and non_harness.hit the number of those entries whose status is,
\* whatever its case, one of hit, covered, 1 and true.
C34_NonHarnessCounts ==
    \A t \in Targets : ReadableCoverage(t) =>
        LET lines == coverage_report[t].lines
            entries == {i \in 1..Len(lines) : ~lines[i].harness}
            n == result[t][1].coverage.non_harness[1]
        IN /\ n.total = Cardinality(entries)
           /\ n.hit = Cardinality({i \in entries :
                                      lines[i].status \in C34_HitSpellings})

\* C34 witness: a written record of a report with a line marked HIT and a
\* line marked missed outside the harness files: 1 hit of 2.
C34_Witness ==
    \E t \in Targets :
        /\ pc[t] = "returned"
        /\ RecordLines(t) # {}
        /\ ReadableCoverage(t)
        /\ coverage_report[t].lines =
               <<[harness |-> FALSE, status |-> <<"H", "I", "T">>],
                 [harness |-> FALSE, status |-> <<"m", "i", "s", "s", "e", "d">>]>>
        /\ result[t][1].coverage.non_harness[1].hit = 1
        /\ result[t][1].coverage.non_harness[1].total = 2

\* C38: for every readable coverage report, 0 <= non_harness.hit <=
\* non_harness.total, and non_harness.percentage is absent exactly when
\* non_harness.total is 0 and is otherwise the quotient of hit and total.
C38_NonHarnessPercentage ==
    \A t \in Targets : ReadableCoverage(t) =>
        LET n == result[t][1].coverage.non_harness[1]
        IN /\ 0 <= n.hit
           /\ n.hit <= n.total
           /\ n.percentage = None <=> n.total = 0
           /\ n.total # 0 => n.percentage = Some(<<n.hit, n.total>>)

\* C38 witness: a written record of a report whose only line entries are of
\* a harness file: nothing counted, no percentage.
C38_Witness ==
    \E t \in Targets :
        /\ pc[t] = "returned"
        /\ RecordLines(t) # {}
        /\ ReadableCoverage(t)
        /\ Len(coverage_report[t].lines) = 2
        /\ \A i \in 1..2 : coverage_report[t].lines[i].harness
        /\ result[t][1].coverage.non_harness[1].total = 0
        /\ result[t][1].coverage.non_harness[1].percentage = None

\* The Examples section of a text: from the first [Examples] header to the
\* end of the line before the next section header, or to the end of the
\* text; empty when there is no such header.
ExamplesSection(text) ==
    IF ExamplesHeaders(text) = {} THEN <<>>
    ELSE LET h == Least(ExamplesHeaders(text))
             later == {j \in (h + 1)..Len(text) : IsHeader(text, j)}
         IN IF later = {} THEN SubSeq(text, h, Len(text))
            ELSE SubSeq(text, h, Least(later) - 2)

C37_CleanRunExitsZero ==
    main_pc = "exited" =>
        /\ (\A t \in SelectedTargets :
                pc[t] = "returned" /\ result[t][1].exit_code = 0)
               => /\ failures = 0
                  /\ summary # None
                  /\ summary[1].targets_total = Cardinality(SelectedTargets)
                  /\ exit_status = Some(0)
        /\ exit_status # Some(0) =>
               \E t \in SelectedTargets :
                   \/ pc[t] = "raised"
                   \/ pc[t] = "returned" /\ result[t][1].exit_code # 0

\* C37 witness: the process has ended with status 0 and a summary over two
\* targets whose agents ran and exited with 0.
C37_Witness ==
    /\ main_pc = "exited"
    /\ ~dry_run
    /\ exit_status = Some(0)
    /\ summary = Some([targets_total |-> 2])
    /\ \A t \in SelectedTargets :
           pc[t] = "returned" /\ exit_code[t] = Some(0) /\ attempt[t] >= 1

\* C39: whenever the token-count record has integer input, cached, output
\* and reasoning counts, none below 0, the record's input_tokens is not
\* below 0; with a cached count above the upstream input the input is
\* reported as it came, not reduced; and total_tokens is the sum of the
\* four reported counts.
C39_InputNeverNegative ==
    \A t \in Targets :
        (result[t] # None /\ result[t][1].session_path # None) =>
            LET u == LogOf(t)[1].usage
                r == result[t][1].tokens
            IN (/\ None \notin {u.input_tokens, u.cached_input_tokens,
                                u.output_tokens, u.reasoning_output_tokens}
                /\ \A c \in {u.input_tokens, u.cached_input_tokens,
                              u.output_tokens, u.reasoning_output_tokens} :
                       c[1] >= 0) =>
                   /\ r.input_tokens # None
                   /\ r.input_tokens[1] >= 0
                   /\ u.cached_input_tokens[1] > u.input_tokens[1] =>
                          r.input_tokens = u.input_tokens
                   /\ r.total_tokens =
                          Some(r.input_tokens[1] + r.cached_tokens[1]
                                   + r.output_tokens[1] + r.reasoning_tokens[1])

\* C39 witness: a written record read from a usage object whose cached
\* count, MaxCount, is above its input count, 1: the input is reported as 1
\* and the total as the sum with it.
C39_Witness ==
    \E t \in Targets :
        /\ pc[t] = "returned"
        /\ RecordLines(t) # {}
        /\ result[t][1].session_path # None
        /\ LET u == LogOf(t)[1].usage
               r == result[t][1].tokens
           IN /\ u.input_tokens = Some(1)
              /\ u.cached_input_tokens = Some(MaxCount)
              /\ u.output_tokens = Some(1)
              /\ u.reasoning_output_tokens = Some(0)
              /\ r.input_tokens = Some(1)
              /\ r.total_tokens = Some(MaxCount + 2)

\* C36: the metrics lock is released after every append, one that raises
\* included: the lock is only ever held by a worker in the middle of its
\* write; every worker that waits for the lock gets through its write, to
\* a return or to the exception of its own write; and a worker whose own
\* write goes well gets its record into the file whatever happens to the
\* writes of the others.
C36_LockReleasedOnFailure ==
    /\ [](\A t \in Targets : metrics_lock = t => pc[t] = "flush")
    /\ \A t \in Targets :
           (pc[t] = "lock") ~> (pc[t] \in {"returned", "raised"})
    /\ \A t \in Targets :
           (pc[t] = "lock" /\ write_fault[t] = "none")
               ~> (pc[t] = "returned" /\ metrics_lock # t /\ RecordLines(t) # {})

\* C36 witness: after the write of one worker raised in the middle of its
\* line, the lock is free and another worker has written its record.
C36_Witness ==
    \E t, u \in Targets :
        /\ write_fault[t] = "write"
        /\ pc[t] = "raised"
        /\ exception[t] = Some("OSError")
        /\ \E i \in 1..Len(metrics_file) :
               metrics_file[i].rec.function = t /\ \A j \in RecordLines(u) : i < j
        /\ pc[u] = "returned"
        /\ RecordLines(u) # {}
        /\ metrics_lock = 0

\* C40: an invocation with --dry-run leaves every file as it is; after an
\* in-place fix (process_file has returned) <name>.old holds what the file
\* held before the fix; a revert moves the fixed file to <name>.broken and
\* <name>.old back to the name of the file; and so a fix followed by a
\* revert leaves the file with exactly what it held before the fix.
C40_FixRevertRoundTrip ==
    [][fix_calls' # fix_calls =>
          LET args == fix_argv[Len(fix_calls')]
              report == fix_calls'[Len(fix_calls')]
          IN /\ args.dry_run => DirNow' = DirNow
             /\ (/\ ~args.revert /\ ~args.dry_run
                 /\ DirNow.file # None
                 /\ report # "AttributeError")
                    => /\ DirNow'.old = DirNow.file
                       /\ DirNow'.file # None
                       /\ DirNow'.broken = DirNow.broken
             /\ (/\ args.revert /\ ~args.dry_run
                 /\ DirNow.file # None
                 /\ DirNow.old # None)
                    => /\ DirNow'.broken = DirNow.file
                       /\ DirNow'.file = DirNow.old
                       /\ DirNow'.old = None
             /\ fix_calls' = <<"changed", "restored">> =>
                    /\ DirNow'.file = DirAtExit'.file
                    /\ DirNow'.tmp = <<>>]_vars

\* C40 witness: a file with a stale record, to which the run has added
\* one, was fixed and the fix reverted: the file holds the two lines as
\* they were, <name>.broken the fixed ones, and <name>.old is gone.
C40_Witness ==
    /\ fix_calls = <<"changed", "restored">>
    /\ old_files.file = Some(<<"stale">>)
    /\ metrics_dir = Some([file |-> Some(<<"stale", "fresh">>),
                           old |-> None,
                           broken |-> Some(<<"fresh", "fresh">>),
                           tmp |-> <<>>])

====
